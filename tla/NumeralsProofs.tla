--------------------------- MODULE NumeralsProofs ---------------------------
(***************************************************************************)
(* What ui2a makes of a number, for every word size and base: its digits   *)
(* read back are the number, none is missing and none is too many. The     *)
(* loops are recursive functions, so that this is induction over data: it  *)
(* goes by the least number principle, which the library states for sets.  *)
(* Each function is first shown to satisfy its equation.                   *)
(***************************************************************************)
EXTENDS Numerals, WellFoundedInduction, TLAPS

(* The least number principle, and induction, for sets of naturals. *)
LEMMA Least ==
    ASSUME NEW T \in SUBSET Nat, T # {}
    PROVE  \E x \in T : \A y \in T : x <= y
<1>1. PICK x \in T : \A y \in T : ~ (<<y, x>> \in OpToRel(<, Nat))
    BY NatLessThanWellFounded, WFMin, Zenon
<1>2. \A y \in T : ~ y < x
    BY <1>1 DEF OpToRel
<1> QED BY <1>2

LEMMA NatInd ==
    ASSUME NEW T \in SUBSET Nat, 0 \in T, \A n \in T : n + 1 \in T
    PROVE  T = Nat
<1> SUFFICES ASSUME Nat \ T # {} PROVE FALSE
    OBVIOUS
<1>1. PICK x \in Nat \ T : \A y \in Nat \ T : x <= y
    BY Least
<1>2. x # 0
    OBVIOUS
<1>3. x - 1 \in Nat /\ ~ x <= x - 1 /\ (x - 1) + 1 = x
    BY <1>2
<1> QED BY <1>1, <1>3

LEMMA WordPositive == WORD \in Nat /\ WORD >= 1
BY WordAssumption

-----------------------------------------------------------------------------
(* The recursive functions are what their equations say. *)

LEMMA PowersExist ==
    ASSUME NEW base
    PROVE  \E P : P = [i \in 0 .. WORD |-> IF i = 0 THEN 1 ELSE base * P[i - 1]]
<1> DEFINE e(f, i) == IF i = 0 THEN 1 ELSE base * f[i - 1]
           good(f, k) == \A i \in 0 .. WORD : i <= k => f[i] = e(f, i)
           T == {k \in Nat : \E f : good(f, k)}
<1>1. 0 \in T
    <2>1. good([i \in 0 .. WORD |-> 1], 0)
        BY WordPositive
    <2> QED BY <2>1
<1>2. \A k \in T : k + 1 \in T
    <2> SUFFICES ASSUME NEW k \in T PROVE k + 1 \in T
        OBVIOUS
    <2>1. PICK f : good(f, k)
        OBVIOUS
    <2> DEFINE g == [i \in 0 .. WORD |-> e(f, i)]
    <2>2. ASSUME NEW i \in 0 .. WORD, i <= k + 1 PROVE g[i] = e(g, i)
        <3>1. CASE i = 0
            BY <3>1
        <3>2. CASE i # 0
            <4>1. i - 1 \in 0 .. WORD /\ i - 1 <= k
                BY <2>2, <3>2, WordPositive
            <4>2. g[i - 1] = f[i - 1]
                BY <2>1, <4>1
            <4> QED BY <3>2, <4>2
        <3> QED BY <3>1, <3>2
    <2>3. good(g, k + 1)
        BY <2>2
    <2> HIDE DEF g
    <2>4. \E f_ : good(f_, k + 1)
        BY <2>3
    <2> QED BY <2>4
<1>3. T = Nat
    <2> HIDE DEF T
    <2>1. T \in SUBSET Nat
        BY DEF T
    <2> QED BY <1>1, <1>2, <2>1, NatInd
<1>4. PICK f : good(f, WORD)
    BY <1>3, WordPositive
<1> DEFINE h == [i \in 0 .. WORD |-> e(f, i)]
<1>5. \A i \in 0 .. WORD : h[i] = f[i]
    BY <1>4, WordPositive
<1>6. \A i \in 0 .. WORD : e(f, i) = e(h, i)
    BY <1>5, WordPositive
<1>7. h = [i \in 0 .. WORD |-> e(h, i)]
    BY <1>6
<1> QED BY <1>7

LEMMA PowersDef ==
    ASSUME NEW base
    PROVE  /\ Powers(base)[0] = 1
           /\ \A i \in 1 .. WORD : Powers(base)[i] = base * Powers(base)[i - 1]
<1>1. Powers(base) = CHOOSE P : P = [i \in 0 .. WORD |-> IF i = 0 THEN 1 ELSE base * P[i - 1]]
    BY DEF Powers
<1> DEFINE P == Powers(base)
<1>2. P = [i \in 0 .. WORD |-> IF i = 0 THEN 1 ELSE base * P[i - 1]]
    BY <1>1, PowersExist, Zenon
<1> HIDE DEF P
<1>3. \A i \in 0 .. WORD : P[i] = IF i = 0 THEN 1 ELSE base * P[i - 1]
    BY <1>2, Zenon
<1>4. 0 \in 0 .. WORD /\ \A i \in 1 .. WORD : i \in 0 .. WORD /\ i # 0
    BY WordPositive
<1>5. P[0] = 1 /\ \A i \in 1 .. WORD : P[i] = base * P[i - 1]
    BY <1>3, <1>4, Zenon
<1> QED BY <1>5 DEF P

(* The first loop of ui2a. *)
Power(num, base) ==
    CHOOSE Power : Power = [d \in 1 .. WORD |-> IF num \div d >= base THEN Power[d * base] ELSE d]

LEMMA NextPower ==
    ASSUME NEW num \in 0 .. WORD - 1, NEW base \in Nat, base >= 2, NEW d \in 1 .. WORD, num \div d >= base
    PROVE  d * base \in 1 .. WORD /\ d * base > d
<1> DEFINE q == num \div d
           r == num % d
<1>1. num \in Nat /\ d \in Nat /\ d >= 1
    BY WordPositive
<1>2. q \in Nat /\ r \in Nat /\ num = q * d + r
    BY <1>1
<1>3. q >= base
    OBVIOUS
<1> HIDE DEF q, r
<1>4. q * d >= base * d
    BY <1>1, <1>2, <1>3
<1>5. d * base <= num /\ d * base \in Nat
    BY <1>1, <1>2, <1>4
<1>6. d * base >= d + d
    BY <1>1
<1> QED BY <1>1, <1>5, <1>6, WordPositive

LEMMA PowerExists ==
    ASSUME NEW num \in 0 .. WORD - 1, NEW base \in Nat, base >= 2
    PROVE  \E P : P = [d \in 1 .. WORD |-> IF num \div d >= base THEN P[d * base] ELSE d]
<1> DEFINE e(f, d) == IF num \div d >= base THEN f[d * base] ELSE d
           good(f, k) == \A d \in 1 .. WORD : WORD - d <= k => f[d] = e(f, d)
           T == {k \in Nat : \E f : good(f, k)}
<1>0. \A d \in 1 .. WORD : num \div d >= base => d * base \in 1 .. WORD /\ WORD - d * base < WORD - d
    <2> SUFFICES ASSUME NEW d \in 1 .. WORD, num \div d >= base
                 PROVE  d * base \in 1 .. WORD /\ WORD - d * base < WORD - d
        OBVIOUS
    <2>1. d * base \in 1 .. WORD /\ d * base > d
        BY NextPower
    <2> DEFINE m == d * base
    <2> HIDE DEF m
    <2> QED BY <2>1, WordPositive DEF m
<1>1. 0 \in T
    <2> DEFINE g == [d \in 1 .. WORD |-> d]
    <2>1. ASSUME NEW d \in 1 .. WORD, WORD - d <= 0 PROVE g[d] = e(g, d)
        <3>1. ~ num \div d >= base
            BY <1>0, <2>1, WordPositive
        <3> QED BY <3>1
    <2>2. good(g, 0)
        BY <2>1
    <2> HIDE DEF g
    <2>3. \E f_ : good(f_, 0)
        BY <2>2
    <2> QED BY <2>3
<1>2. \A k \in T : k + 1 \in T
    <2> SUFFICES ASSUME NEW k \in T PROVE k + 1 \in T
        OBVIOUS
    <2>1. PICK f : good(f, k)
        OBVIOUS
    <2> DEFINE g == [d \in 1 .. WORD |-> e(f, d)]
    <2>2. ASSUME NEW d \in 1 .. WORD, WORD - d <= k + 1 PROVE g[d] = e(g, d)
        <3>1. CASE ~ num \div d >= base
            BY <3>1
        <3>2. CASE num \div d >= base
            <4> DEFINE m == d * base
            <4>1. m \in 1 .. WORD /\ WORD - m < WORD - d
                BY <1>0, <3>2
            <4> HIDE DEF m
            <4>2. WORD - m <= k
                BY <2>2, <4>1, WordPositive
            <4>3. g[m] = f[m]
                BY <2>1, <4>1, <4>2
            <4> QED BY <3>2, <4>3 DEF m
        <3> QED BY <3>1, <3>2
    <2>3. good(g, k + 1)
        BY <2>2
    <2> HIDE DEF g
    <2>4. \E f_ : good(f_, k + 1)
        BY <2>3
    <2> QED BY <2>4
<1>3. T = Nat
    <2> HIDE DEF T
    <2>1. T \in SUBSET Nat
        BY DEF T
    <2> QED BY <1>1, <1>2, <2>1, NatInd
<1>4. PICK f : good(f, WORD)
    BY <1>3, WordPositive
<1> DEFINE h == [d \in 1 .. WORD |-> e(f, d)]
<1>5. \A d \in 1 .. WORD : h[d] = f[d]
    BY <1>4, WordPositive
<1>6. \A d \in 1 .. WORD : e(f, d) = e(h, d)
    BY <1>0, <1>5
<1>7. h = [d \in 1 .. WORD |-> e(h, d)]
    BY <1>6
<1> QED BY <1>7

LEMMA PowerDef ==
    ASSUME NEW num \in 0 .. WORD - 1, NEW base \in Nat, base >= 2
    PROVE  /\ TopPower(num, base) = Power(num, base)[1]
           /\ \A d \in 1 .. WORD :
                 Power(num, base)[d] = IF num \div d >= base THEN Power(num, base)[d * base] ELSE d
<1>1. TopPower(num, base) = Power(num, base)[1]
    BY DEF TopPower, Power
<1> DEFINE P == Power(num, base)
<1>2. P = [d \in 1 .. WORD |-> IF num \div d >= base THEN P[d * base] ELSE d]
    BY PowerExists, Zenon DEF Power
<1> HIDE DEF P
<1>3. \A d \in 1 .. WORD : P[d] = IF num \div d >= base THEN P[d * base] ELSE d
    BY <1>2
<1> QED BY <1>1, <1>3 DEF P

(* The second loop: where it is, and the text put from there on. *)
Places == [rest : 0 .. WORD - 1, d : 1 .. WORD, n : BOOLEAN]
Puts_(base, s) == s.n \/ s.rest \div s.d > 0 \/ s.d \div base = 0
NextPlace(base, s) == [rest |-> s.rest % s.d, d |-> s.d \div base, n |-> Puts_(base, s)]
FromBody(base, digits, F, s) ==
    (IF Puts_(base, s) THEN <<digits[s.rest \div s.d + 1]>> ELSE << >>)
    \o IF s.d \div base = 0 THEN << >> ELSE F[NextPlace(base, s)]
From(base, digits) == CHOOSE F : F = [s \in Places |-> FromBody(base, digits, F, s)]

LEMMA Shrinks ==
    ASSUME NEW d \in Nat, d >= 1, NEW base \in Nat, base >= 2
    PROVE  d \div base \in Nat /\ d \div base < d
<1> DEFINE q == d \div base
           r == d % base
<1>1. q \in Nat /\ r \in Nat /\ d = q * base + r
    OBVIOUS
<1> HIDE DEF q, r
<1>2. q * base >= q + q
    BY <1>1
<1>3. q < d
    BY <1>1, <1>2
<1> QED BY <1>1, <1>3 DEF q

LEMMA NextPlaceIn ==
    ASSUME NEW s \in Places, NEW base \in Nat, base >= 2, s.d \div base # 0
    PROVE  NextPlace(base, s) \in Places /\ NextPlace(base, s).d < s.d
<1> DEFINE rest == s.rest
           d == s.d
<1>1. rest \in Nat /\ rest < WORD /\ d \in Nat /\ d >= 1 /\ d <= WORD
    BY WordPositive DEF Places
<1>2. rest % d \in Nat /\ rest % d < d
    BY <1>1
<1>3. d \div base \in Nat /\ d \div base < d
    BY <1>1, Shrinks
<1>4. Puts_(base, s) \in BOOLEAN
    BY DEF Puts_, Places
<1>5. rest % d \in 0 .. WORD - 1 /\ d \div base \in 1 .. WORD
    BY <1>1, <1>2, <1>3, WordPositive
<1> QED BY <1>3, <1>4, <1>5 DEF Places, NextPlace

LEMMA FromExists ==
    ASSUME NEW base \in Nat, base >= 2, NEW digits
    PROVE  \E F : F = [s \in Places |-> FromBody(base, digits, F, s)]
<1> DEFINE good(f, k) == \A s \in Places : s.d <= k => f[s] = FromBody(base, digits, f, s)
           T == {k \in Nat : \E f : good(f, k)}
<1>0. ASSUME NEW f, NEW g, NEW s \in Places,
             s.d \div base # 0 => f[NextPlace(base, s)] = g[NextPlace(base, s)]
      PROVE  FromBody(base, digits, f, s) = FromBody(base, digits, g, s)
    BY <1>0 DEF FromBody
<1>1. 0 \in T
    <2>1. good(<< >>, 0)
        BY DEF Places
    <2> QED BY <2>1
<1>2. \A k \in T : k + 1 \in T
    <2> SUFFICES ASSUME NEW k \in T PROVE k + 1 \in T
        OBVIOUS
    <2>1. PICK f : good(f, k)
        OBVIOUS
    <2> DEFINE g == [s \in Places |-> FromBody(base, digits, f, s)]
    <2>2. ASSUME NEW s \in Places, s.d <= k + 1 PROVE g[s] = FromBody(base, digits, g, s)
        <3>1. ASSUME s.d \div base # 0
              PROVE  f[NextPlace(base, s)] = g[NextPlace(base, s)]
            <4>1. NextPlace(base, s) \in Places /\ NextPlace(base, s).d < s.d
                BY <3>1, NextPlaceIn
            <4> DEFINE t == NextPlace(base, s)
            <4> HIDE DEF t
            <4>2. t.d <= k
                BY <2>2, <4>1 DEF Places, t
            <4>3. g[t] = f[t]
                BY <2>1, <4>1, <4>2 DEF t
            <4> QED BY <4>3 DEF t
        <3>2. FromBody(base, digits, f, s) = FromBody(base, digits, g, s)
            BY <1>0, <3>1
        <3> QED BY <3>2
    <2>3. good(g, k + 1)
        BY <2>2
    <2> HIDE DEF g
    <2>4. \E f_ : good(f_, k + 1)
        BY <2>3
    <2> QED BY <2>4
<1>3. T = Nat
    <2> HIDE DEF T
    <2>1. T \in SUBSET Nat
        BY DEF T
    <2> QED BY <1>1, <1>2, <2>1, NatInd
<1>4. PICK f : good(f, WORD)
    BY <1>3, WordPositive
<1> DEFINE h == [s \in Places |-> FromBody(base, digits, f, s)]
<1>5. \A s \in Places : h[s] = f[s]
    BY <1>4, WordPositive DEF Places
<1>6. \A s \in Places : FromBody(base, digits, f, s) = FromBody(base, digits, h, s)
    <2> TAKE s \in Places
    <2>1. s.d \div base # 0 => f[NextPlace(base, s)] = h[NextPlace(base, s)]
        BY <1>5, NextPlaceIn
    <2> HIDE DEF h
    <2> QED BY <1>0, <2>1
<1>7. h = [s \in Places |-> FromBody(base, digits, h, s)]
    BY <1>6
<1> QED BY <1>7

LEMMA FromDef ==
    ASSUME NEW base \in Nat, base >= 2, NEW digits
    PROVE  \A s \in Places : From(base, digits)[s] = FromBody(base, digits, From(base, digits), s)
<1> DEFINE F == From(base, digits)
<1>1. F = [s \in Places |-> FromBody(base, digits, F, s)]
    BY FromExists, Zenon DEF From
<1> HIDE DEF F
<1>2. \A s \in Places : F[s] = FromBody(base, digits, F, s)
    BY <1>1
<1> QED BY <1>2 DEF F

LEMMA ui2aFrom ==
    ASSUME NEW num, NEW base, NEW digits
    PROVE  ui2a(num, base, digits) = From(base, digits)[[rest |-> num, d |-> TopPower(num, base), n |-> FALSE]]
BY Zenon DEF ui2a, From, FromBody, Places, NextPlace, Puts_

-----------------------------------------------------------------------------
(* The powers *)

LEMMA PowersGrow ==
    ASSUME NEW base \in Nat, base >= 2
    PROVE  \A i \in 0 .. WORD : Powers(base)[i] \in Nat /\ Powers(base)[i] >= i + 1
<1> DEFINE p == Powers(base)
           T == {i \in Nat : i <= WORD => p[i] \in Nat /\ p[i] >= i + 1}
<1>0. p[0] = 1 /\ \A i \in 1 .. WORD : p[i] = base * p[i - 1]
    BY PowersDef
<1> HIDE DEF p
<1>1. 0 \in T
    BY <1>0
<1>2. \A i \in T : i + 1 \in T
    <2> SUFFICES ASSUME NEW i \in T, i + 1 <= WORD PROVE p[i + 1] \in Nat /\ p[i + 1] >= (i + 1) + 1
        OBVIOUS
    <2>1. i \in Nat /\ p[i] \in Nat /\ p[i] >= i + 1
        BY WordPositive
    <2>2. i + 1 \in 1 .. WORD /\ (i + 1) - 1 = i
        BY <2>1, WordPositive
    <2>3. p[i + 1] = base * p[i]
        BY <1>0, <2>2
    <2> DEFINE q == p[i]
    <2> HIDE DEF q
    <2>4. base * q \in Nat /\ base * q >= q + q
        BY <2>1 DEF q
    <2> QED BY <2>1, <2>3, <2>4 DEF q
<1>3. T = Nat
    <2> HIDE DEF T
    <2>1. T \in SUBSET Nat
        BY DEF T
    <2> QED BY <1>1, <1>2, <2>1, NatInd
<1>4. \A i \in 0 .. WORD : p[i] \in Nat /\ p[i] >= i + 1
    BY <1>3, WordPositive
<1> QED BY <1>4 DEF p

LEMMA PowersStep ==
    ASSUME NEW base \in Nat, base >= 2, NEW i \in 0 .. WORD - 1
    PROVE  /\ Powers(base)[i + 1] = base * Powers(base)[i]
           /\ Powers(base)[i] \in Nat /\ Powers(base)[i] >= 1
           /\ Powers(base)[i + 1] \in Nat /\ Powers(base)[i + 1] >= Powers(base)[i]
<1> DEFINE p == Powers(base)
<1>1. i \in 0 .. WORD /\ i + 1 \in 1 .. WORD /\ i + 1 \in 0 .. WORD /\ (i + 1) - 1 = i
    BY WordPositive
<1>2. p[i + 1] = base * p[i] /\ p[i] \in Nat /\ p[i] >= i + 1 /\ p[i + 1] \in Nat
    BY <1>1, PowersDef, PowersGrow
<1> HIDE DEF p
<1> DEFINE q == p[i]
<1> HIDE DEF q
<1>3. base * q >= q
    BY <1>2 DEF q
<1>4. p[i + 1] >= p[i] /\ p[i] >= 1
    BY <1>1, <1>2, <1>3 DEF q
<1> QED BY <1>2, <1>4 DEF p

LEMMA PowersMonotonic ==
    ASSUME NEW base \in Nat, base >= 2, NEW i \in 0 .. WORD
    PROVE  \A j \in i .. WORD : Powers(base)[i] <= Powers(base)[j]
<1> DEFINE p == Powers(base)
           T == {k \in Nat : i + k <= WORD => p[i] <= p[i + k]}
<1>0. \A k \in 0 .. WORD : p[k] \in Nat
    BY PowersGrow
<1>1. 0 \in T
    BY <1>0, WordPositive
<1>2. \A k \in T : k + 1 \in T
    <2> SUFFICES ASSUME NEW k \in T, i + (k + 1) <= WORD PROVE p[i] <= p[i + (k + 1)]
        OBVIOUS
    <2>1. i + k \in 0 .. WORD - 1 /\ (i + k) + 1 = i + (k + 1) /\ i + k <= WORD
        BY WordPositive
    <2>2. p[i] <= p[i + k]
        BY <2>1
    <2>3. p[i + k] \in Nat /\ p[(i + k) + 1] \in Nat /\ p[(i + k) + 1] >= p[i + k]
        BY <2>1, PowersStep
    <2> HIDE DEF p
    <2> QED BY <1>0, <2>1, <2>2, <2>3
<1>3. T = Nat
    <2> HIDE DEF T
    <2>1. T \in SUBSET Nat
        BY DEF T
    <2> QED BY <1>1, <1>2, <2>1, NatInd
<1>4. ASSUME NEW j \in i .. WORD PROVE p[i] <= p[j]
    <2> DEFINE k == j - i
    <2>1. k \in Nat /\ i + k = j /\ j <= WORD
        BY WordPositive
    <2>2. k \in T
        BY <1>3, <2>1
    <2> HIDE DEF k, p
    <2> QED BY <2>1, <2>2
<1> QED BY <1>4

LEMMA DivBound ==
    ASSUME NEW n \in Nat, NEW d \in Nat, d >= 1, NEW b \in Nat
    PROVE  /\ n < b * d => n \div d < b
           /\ n >= b * d => n \div d >= b
<1> DEFINE q == n \div d
           r == n % d
<1>1. q \in Nat /\ r \in Nat /\ r < d /\ n = q * d + r
    OBVIOUS
<1> HIDE DEF q, r
<1>2. ASSUME n < b * d, q >= b PROVE FALSE
    <2>1. q * d >= b * d
        BY <1>1, <1>2
    <2> QED BY <1>1, <1>2, <2>1
<1>3. ASSUME n >= b * d, q < b PROVE FALSE
    <2>1. q + 1 <= b
        BY <1>1, <1>3
    <2>2. (q + 1) * d <= b * d
        BY <1>1, <2>1
    <2>3. (q + 1) * d = q * d + d
        BY <1>1
    <2> QED BY <1>1, <1>3, <2>2, <2>3
<1> QED BY <1>1, <1>2, <1>3 DEF q

(* The place of the first digit. *)
Top(num, base, J) ==
    /\ J \in 0 .. WORD - 1
    /\ J # 0 => Powers(base)[J] <= num
    /\ num < Powers(base)[J + 1]

LEMMA TopExists ==
    ASSUME NEW num \in 0 .. WORD - 1, NEW base \in Nat, base >= 2
    PROVE  \E J : Top(num, base, J)
<1> DEFINE p == Powers(base)
           T == {j \in Nat : j \in 0 .. WORD - 1 /\ num < p[j + 1]}
<1>0. \A k \in 0 .. WORD : p[k] \in Nat /\ p[k] >= k + 1
    BY PowersGrow
<1> HIDE DEF p
<1>1. WORD - 1 \in T
    BY <1>0, WordPositive
<1>2. PICK J \in T : \A j \in T : J <= j
    <2>1. T \in SUBSET Nat /\ T # {}
        BY <1>1
    <2> HIDE DEF T
    <2> QED BY <2>1, Least
<1>3. ASSUME J # 0 PROVE p[J] <= num
    <2>1. J - 1 \in 0 .. WORD - 1 /\ (J - 1) + 1 = J /\ J \in 0 .. WORD /\ ~ J <= J - 1
        BY <1>3, WordPositive
    <2>2. ~ num < p[J]
        BY <1>2, <2>1
    <2>3. p[J] \in Nat /\ num \in Nat
        BY <1>0, <2>1, WordPositive
    <2> QED BY <2>2, <2>3
<1> QED BY <1>3 DEF Top, p

LEMMA TopPowerIs ==
    ASSUME NEW num \in 0 .. WORD - 1, NEW base \in Nat, base >= 2, NEW J, Top(num, base, J)
    PROVE  TopPower(num, base) = Powers(base)[J]
<1> DEFINE p == Powers(base)
           P == Power(num, base)
           T == {i \in Nat : i <= J => P[p[J - i]] = p[J]}
<1>0. J \in Nat /\ J <= WORD - 1 /\ num \in Nat
    BY WordPositive DEF Top
<1>a. \A d \in 1 .. WORD : P[d] = IF num \div d >= base THEN P[d * base] ELSE d
    BY PowerDef
<1>b. ASSUME NEW i \in 0 .. J PROVE p[i] \in 1 .. WORD /\ p[i + 1] = base * p[i] /\ p[i] \in Nat /\ p[i] >= 1
    <2>1. i \in 0 .. WORD - 1 /\ i \in 0 .. WORD /\ J \in i .. WORD
        BY <1>0, WordPositive
    <2>2. p[i + 1] = base * p[i] /\ p[i] \in Nat /\ p[i] >= 1
        BY <2>1, PowersStep
    <2>3. p[i] <= p[J]
        BY <2>1, PowersMonotonic
    <2>4. p[J] \in Nat /\ (J = 0 => p[J] = 1) /\ (J # 0 => p[J] <= num)
        BY <1>0, PowersDef, PowersGrow, WordPositive DEF Top
    <2> HIDE DEF p
    <2> QED BY <1>0, <2>2, <2>3, <2>4, WordPositive
<1>c. num < p[J + 1]
    BY DEF Top
<1>d. J # 0 => p[J] <= num
    BY DEF Top
<1>1. 0 \in T
    <2>1. J \in 0 .. J /\ J - 0 = J
        BY <1>0
    <2>2. p[J] \in 1 .. WORD /\ p[J + 1] = base * p[J] /\ p[J] \in Nat /\ p[J] >= 1
        BY <1>b, <2>1
    <2> HIDE DEF p, P
    <2> DEFINE d == p[J]
    <2> HIDE DEF d
    <2>3. num \div d < base /\ num \div d \in Nat
        BY <1>0, <1>c, <2>2, DivBound DEF d
    <2>4. P[d] = d
        BY <1>a, <2>2, <2>3 DEF d
    <2> QED BY <2>1, <2>4 DEF d
<1>2. \A i \in T : i + 1 \in T
    <2> SUFFICES ASSUME NEW i \in T, i + 1 <= J PROVE P[p[J - (i + 1)]] = p[J]
        OBVIOUS
    <2> DEFINE k == J - (i + 1)
    <2>1. k \in 0 .. J /\ k + 1 = J - i /\ i <= J /\ J # 0 /\ k + 1 \in 0 .. J
        BY <1>0
    <2>2. P[p[k + 1]] = p[J]
        BY <2>1
    <2>3. p[k] \in 1 .. WORD /\ p[k + 1] = base * p[k] /\ p[k] \in Nat /\ p[k] >= 1 /\ p[k + 1] \in Nat
        BY <1>b, <2>1
    <2>4. p[k + 1] <= p[J] /\ p[J] \in Nat
        BY <1>0, <2>1, PowersMonotonic, PowersGrow, WordPositive
    <2> HIDE DEF p, P, k
    <2> DEFINE d == p[k]
    <2>5. d \in 1 .. WORD /\ d \in Nat /\ d >= 1 /\ num >= base * d /\ base * d = d * base
        BY <1>0, <1>d, <2>1, <2>3, <2>4
    <2> HIDE DEF d
    <2>6. num \div d >= base
        BY <1>0, <2>5, DivBound
    <2>7. P[d] = P[d * base]
        BY <1>a, <2>5, <2>6
    <2>8. d * base = p[k + 1]
        BY <2>3, <2>5 DEF d
    <2> QED BY <2>2, <2>7, <2>8 DEF d, k
<1>3. T = Nat
    <2> HIDE DEF T
    <2>1. T \in SUBSET Nat
        BY DEF T
    <2> QED BY <1>1, <1>2, <2>1, NatInd
<1>4. P[p[0]] = p[J]
    <2>1. J \in T /\ J - J = 0
        BY <1>0, <1>3
    <2> HIDE DEF p, P
    <2> QED BY <1>0, <2>1
<1>5. p[0] = 1 /\ TopPower(num, base) = P[1]
    BY PowersDef, PowerDef
<1> QED BY <1>4, <1>5

-----------------------------------------------------------------------------
(* The digits *)

(* What is left of num after the digits in front of the i-th.               *)
Rests(num, base, J, r) ==
    r[0] = num /\ \A i \in 0 .. J : r[i + 1] = r[i] % Powers(base)[J - i]

Dgt(base, J, r, i) == r[i] \div Powers(base)[J - i]

LEMMA RestsExist ==
    ASSUME NEW num, NEW base, NEW J \in Nat
    PROVE  \E r : Rests(num, base, J, r)
<1> DEFINE p == Powers(base)
           e(f, i) == IF i = 0 THEN num ELSE f[i - 1] % p[J - (i - 1)]
           good(f, k) == \A i \in 0 .. J + 1 : i <= k => f[i] = e(f, i)
           T == {k \in Nat : \E f : good(f, k)}
<1> HIDE DEF p
<1>1. 0 \in T
    <2>1. good([i \in 0 .. J + 1 |-> num], 0)
        OBVIOUS
    <2> QED BY <2>1
<1>2. \A k \in T : k + 1 \in T
    <2> SUFFICES ASSUME NEW k \in T PROVE k + 1 \in T
        OBVIOUS
    <2>1. PICK f : good(f, k)
        OBVIOUS
    <2> DEFINE g == [i \in 0 .. J + 1 |-> e(f, i)]
    <2>2. ASSUME NEW i \in 0 .. J + 1, i <= k + 1 PROVE g[i] = e(g, i)
        <3>1. CASE i = 0
            BY <3>1
        <3>2. CASE i # 0
            <4>1. i - 1 \in 0 .. J + 1 /\ i - 1 <= k
                BY <2>2, <3>2
            <4>2. g[i - 1] = f[i - 1]
                BY <2>1, <4>1
            <4> QED BY <3>2, <4>2
        <3> QED BY <3>1, <3>2
    <2>3. good(g, k + 1)
        BY <2>2
    <2> HIDE DEF g
    <2>4. \E f_ : good(f_, k + 1)
        BY <2>3
    <2> QED BY <2>4
<1>3. T = Nat
    <2> HIDE DEF T
    <2>1. T \in SUBSET Nat
        BY DEF T
    <2> QED BY <1>1, <1>2, <2>1, NatInd
<1>4. PICK f : good(f, J + 1)
    <2>1. J + 1 \in T
        <3> HIDE DEF T
        <3> QED BY <1>3
    <2> QED BY <2>1
<1>5. f[0] = num
    BY <1>4
<1>6. ASSUME NEW i \in 0 .. J PROVE f[i + 1] = f[i] % p[J - i]
    <2>1. i + 1 \in 0 .. J + 1 /\ i + 1 <= J + 1 /\ i + 1 # 0 /\ (i + 1) - 1 = i
        OBVIOUS
    <2> QED BY <1>4, <2>1
<1> QED BY <1>5, <1>6 DEF Rests, p

LEMMA DivMod ==
    ASSUME NEW n \in Nat, NEW d \in Nat, d >= 1
    PROVE  /\ n \div d \in Nat /\ n % d \in Nat /\ n % d < d /\ n % d <= n
           /\ n = (n \div d) * d + (n % d)
<1> DEFINE q == n \div d
           r == n % d
<1>1. q \in Nat /\ r \in Nat /\ r < d /\ n = q * d + r
    OBVIOUS
<1> HIDE DEF q, r
<1>2. q * d \in Nat
    BY <1>1
<1>3. r <= n
    BY <1>1, <1>2
<1> QED BY <1>1, <1>3 DEF q, r

(* A rest is less than the power in front of it. *)
LEMMA RestsBound ==
    ASSUME NEW num \in 0 .. WORD - 1, NEW base \in Nat, base >= 2,
           NEW J, Top(num, base, J), NEW r, Rests(num, base, J, r)
    PROVE  /\ \A i \in 0 .. J : /\ r[i] \in 0 .. WORD - 1 /\ r[i + 1] \in Nat
                                 /\ Dgt(base, J, r, i) \in 0 .. base - 1
                                 /\ r[i] = Dgt(base, J, r, i) * Powers(base)[J - i] + r[i + 1]
           /\ r[J + 1] = 0
<1> DEFINE p == Powers(base)
           T == {i \in Nat : i <= J => r[i] \in 0 .. WORD - 1 /\ r[i] < p[(J - i) + 1]}
<1>0. J \in Nat /\ J <= WORD - 1 /\ num \in Nat
    BY WordPositive DEF Top
<1>a. \A i \in 0 .. J : /\ p[(J - i) + 1] = base * p[J - i]
                         /\ p[J - i] \in Nat /\ p[J - i] >= 1
    <2> TAKE i \in 0 .. J
    <2>1. J - i \in 0 .. WORD - 1
        BY <1>0, WordPositive
    <2> QED BY <2>1, PowersStep
<1>b. r[0] = num /\ \A i \in 0 .. J : r[i + 1] = r[i] % p[J - i]
    BY DEF Rests
<1>c. num < p[J + 1] /\ p[0] = 1
    BY PowersDef DEF Top
<1> HIDE DEF p
<1>1. 0 \in T
    BY <1>0, <1>b, <1>c
<1>2. \A i \in T : i + 1 \in T
    <2> SUFFICES ASSUME NEW i \in T, i + 1 <= J
                 PROVE  r[i + 1] \in 0 .. WORD - 1 /\ r[i + 1] < p[(J - (i + 1)) + 1]
        OBVIOUS
    <2>1. i \in 0 .. J /\ i <= J /\ (J - (i + 1)) + 1 = J - i
        BY <1>0
    <2>2. r[i] \in 0 .. WORD - 1
        BY <2>1
    <2> DEFINE n == r[i]
               d == p[J - i]
    <2>3. n \in Nat /\ d \in Nat /\ d >= 1 /\ n <= WORD - 1
        BY <1>a, <2>1, <2>2, WordPositive
    <2>4. r[i + 1] = n % d
        BY <1>b, <2>1
    <2> HIDE DEF n, d
    <2>5. n % d \in Nat /\ n % d < d /\ n % d <= n
        BY <2>3, DivMod
    <2>6. r[i + 1] \in 0 .. WORD - 1 /\ r[i + 1] < d
        BY <2>3, <2>4, <2>5, WordPositive
    <2> QED BY <2>1, <2>6 DEF d
<1>3. T = Nat
    <2> HIDE DEF T
    <2>1. T \in SUBSET Nat
        BY DEF T
    <2> QED BY <1>1, <1>2, <2>1, NatInd
<1>4. ASSUME NEW i \in 0 .. J
      PROVE  /\ r[i] \in 0 .. WORD - 1 /\ r[i + 1] \in Nat /\ r[i + 1] < p[J - i]
             /\ r[i] \div p[J - i] \in 0 .. base - 1
             /\ r[i] = (r[i] \div p[J - i]) * p[J - i] + r[i + 1]
    <2> DEFINE n == r[i]
               d == p[J - i]
    <2>1. n \in 0 .. WORD - 1 /\ n < p[(J - i) + 1]
        BY <1>0, <1>3
    <2>2. p[(J - i) + 1] = base * d /\ d \in Nat /\ d >= 1
        BY <1>a
    <2>3. r[i + 1] = n % d
        BY <1>b
    <2> HIDE DEF n, d
    <2>4. n \in Nat /\ n < base * d
        BY <2>1, <2>2, WordPositive
    <2>5. n \div d < base /\ n \div d \in Nat
        BY <2>2, <2>4, DivBound
    <2>6. n % d \in Nat /\ n % d < d /\ n = (n \div d) * d + (n % d)
        BY <2>2, <2>4, DivMod
    <2>7. n \div d \in 0 .. base - 1
        BY <2>5
    <2> QED BY <2>1, <2>3, <2>6, <2>7 DEF n, d
<1>5. r[J + 1] = 0
    <2>1. J \in 0 .. J /\ J - J = 0
        BY <1>0
    <2>2. r[J + 1] \in Nat /\ r[J + 1] < p[J - J]
        BY <1>4, <2>1
    <2> QED BY <1>c, <2>1, <2>2
<1> QED BY <1>4, <1>5 DEF Dgt, p

(* The text from the m-th place on, counted from the last. *)
Tail_(base, digits, J, r, m) ==
    [k \in 1 .. m + 1 |-> digits[Dgt(base, J, r, ((J - m) + k) - 1) + 1]]

Place(base, J, r, m) == [rest |-> r[J - m], d |-> Powers(base)[m], n |-> m < J]

LEMMA TextFrom ==
    ASSUME NEW num \in 0 .. WORD - 1, NEW base \in Nat, base >= 2, NEW digits,
           NEW J, Top(num, base, J), NEW r, Rests(num, base, J, r)
    PROVE  ui2a(num, base, digits) = Tail_(base, digits, J, r, J)
<1> DEFINE p == Powers(base)
           F == From(base, digits)
           T == {m \in Nat : m <= J => F[Place(base, J, r, m)] = Tail_(base, digits, J, r, m)}
<1>0. J \in Nat /\ J <= WORD - 1 /\ num \in Nat /\ p[0] = 1
    BY PowersDef, WordPositive DEF Top
<1>a. ASSUME NEW m \in 0 .. J PROVE p[m] \in 1 .. WORD
    <2>1. m \in 0 .. WORD /\ J \in m .. WORD /\ J \in 0 .. WORD
        BY <1>0, WordPositive
    <2>2. p[m] \in Nat /\ p[m] >= m + 1 /\ p[J] \in Nat
        BY <2>1, PowersGrow
    <2>3. p[m] <= p[J]
        BY <2>1, PowersMonotonic
    <2>4. (J = 0 => p[J] = 1) /\ (J # 0 => p[J] <= num)
        BY <1>0 DEF Top
    <2> HIDE DEF p
    <2> QED BY <1>0, <2>2, <2>3, <2>4, WordPositive
<1>b. \A i \in 0 .. J : r[i] \in 0 .. WORD - 1
    BY RestsBound
<1>c. \A m \in 0 .. J : Place(base, J, r, m) \in Places
    <2> TAKE m \in 0 .. J
    <2>1. J - m \in 0 .. J /\ (m < J) \in BOOLEAN
        BY <1>0
    <2>2. r[J - m] \in 0 .. WORD - 1 /\ p[m] \in 1 .. WORD
        BY <1>a, <1>b, <2>1
    <2> QED BY <2>1, <2>2 DEF Place, Places
<1>d. \A s \in Places : F[s] = FromBody(base, digits, F, s)
    BY FromDef
<1> HIDE DEF F
<1>1. 0 \in T
    <2> DEFINE s == Place(base, J, r, 0)
    <2>1. s \in Places /\ s.rest = r[J] /\ s.d = 1
        BY <1>0, <1>c DEF Place
    <2>2. 1 \div base = 0
        BY Shrinks
    <2>3. r[J] \in Nat
        BY <1>0, <1>b, WordPositive
    <2>4. Puts_(base, s)
        BY <2>1, <2>2 DEF Puts_
    <2> HIDE DEF s
    <2>5. F[s] = <<digits[r[J] \div 1 + 1]>> \o << >>
        BY <1>d, <2>1, <2>2, <2>4 DEF FromBody
    <2>6. ((J - 0) + 1) - 1 = J /\ J - J = 0
        BY <1>0
    <2>7. Dgt(base, J, r, J) = r[J] \div 1
        BY <1>0, <2>6 DEF Dgt
    <2>8. Tail_(base, digits, J, r, 0) = <<digits[Dgt(base, J, r, J) + 1]>>
        BY <2>6 DEF Tail_
    <2>9. F[s] = Tail_(base, digits, J, r, 0)
        BY <2>5, <2>7, <2>8
    <2> QED BY <2>9 DEF s
<1>2. \A m \in T : m + 1 \in T
    <2> SUFFICES ASSUME NEW m \in T, m + 1 <= J
                 PROVE  F[Place(base, J, r, m + 1)] = Tail_(base, digits, J, r, m + 1)
        OBVIOUS
    <2> DEFINE s == Place(base, J, r, m + 1)
               i == J - (m + 1)
               d == p[m + 1]
    <2>1. /\ m \in 0 .. J /\ m + 1 \in 0 .. J /\ m <= J /\ i \in 0 .. J /\ i + 1 = J - m
          /\ J - i = m + 1 /\ m \in 0 .. WORD - 1 /\ m < J /\ m \in Nat
        BY <1>0, WordPositive
    <2>2. s \in Places /\ s.rest = r[i] /\ s.d = d /\ s.n = (m + 1 < J)
        BY <1>c, <2>1 DEF Place
    <2>3. d = base * p[m] /\ p[m] \in Nat /\ p[m] >= 1 /\ d \in Nat
        BY <2>1, PowersStep
    <2>4. d \div base = p[m] /\ d \div base # 0
        <3> DEFINE q == p[m]
        <3> HIDE DEF q, d
        <3>1. d = q * base + 0 /\ q \in Nat /\ q # 0
            BY <2>3 DEF q
        <3>2. d \div base = q
            BY <2>3, <3>1
        <3> QED BY <3>1, <3>2 DEF q
    <2>5. r[i + 1] = r[i] % d
        BY <2>1 DEF Rests
    <2>6. r[i] \div d \in Nat
        <3>1. r[i] \in Nat
            BY <1>b, <2>1, WordPositive
        <3>2. d >= 1
            BY <1>a, <2>1, WordPositive
        <3> HIDE DEF d
        <3> QED BY <2>3, <3>1, <3>2, DivMod
    <2>7. Puts_(base, s)
        <3>1. CASE m + 1 < J
            BY <2>2, <3>1 DEF Puts_
        <3>2. CASE m + 1 = J
            <4>1. i = 0 /\ r[i] = num /\ num >= 1 * d /\ d >= 1
                <5>1. J # 0 /\ i = 0
                    BY <1>0, <2>1, <3>2
                <5>2. p[J] <= num /\ d = p[J] /\ r[0] = num
                    BY <3>2, <5>1 DEF Top, Rests
                <5>3. d >= 1
                    BY <1>a, <2>1, WordPositive
                <5> HIDE DEF d, p
                <5> QED BY <1>0, <2>3, <5>1, <5>2, <5>3
            <4>2. num \div d >= 1
                <5> HIDE DEF d
                <5> QED BY <1>0, <2>3, <4>1, DivBound
            <4>3. r[i] \div d > 0
                BY <2>6, <4>1, <4>2
            <4> QED BY <2>2, <4>3 DEF Puts_
        <3> QED BY <1>0, <2>1, <3>1, <3>2
    <2>8. NextPlace(base, s) = Place(base, J, r, m)
        <3>1. NextPlace(base, s) = [rest |-> r[i] % d, d |-> d \div base, n |-> TRUE]
            BY <2>2, <2>7 DEF NextPlace, Puts_
        <3>2. Place(base, J, r, m) = [rest |-> r[J - m], d |-> p[m], n |-> TRUE]
            BY <2>1 DEF Place
        <3> QED BY <2>1, <2>4, <2>5, <3>1, <3>2
    <2> HIDE DEF s, d, p
    <2>9. F[s] = <<digits[r[i] \div d + 1]>> \o F[NextPlace(base, s)]
        BY <1>d, <2>2, <2>4, <2>7 DEF FromBody
    <2>10. F[NextPlace(base, s)] = Tail_(base, digits, J, r, m)
        BY <2>1, <2>8
    <2>11. Dgt(base, J, r, i) = r[i] \div d
        BY <2>1 DEF Dgt, d, p
    <2>12. <<digits[Dgt(base, J, r, i) + 1]>> \o Tail_(base, digits, J, r, m) = Tail_(base, digits, J, r, m + 1)
        <3> DEFINE c(k) == digits[Dgt(base, J, r, k) + 1]
        <3> HIDE DEF c
        <3>1. Tail_(base, digits, J, r, m) = [k \in 1 .. m + 1 |-> c((i + 1 + k) - 1)]
            BY <2>1 DEF Tail_, c
        <3>2. Tail_(base, digits, J, r, m + 1) = [k \in 1 .. (m + 1) + 1 |-> c((i + k) - 1)]
            BY DEF Tail_, c
        <3>3. <<c(i)>> \o [k \in 1 .. m + 1 |-> c((i + 1 + k) - 1)] = [k \in 1 .. (m + 1) + 1 |-> c((i + k) - 1)]
            <4> HIDE DEF i
            <4> DEFINE t == [k \in 1 .. m + 1 |-> c((i + 1 + k) - 1)]
                       u == <<c(i)>> \o t
            <4>0. i \in Int
                BY <1>0, <2>1
            <4>1. Len(t) = m + 1 /\ Len(<<c(i)>>) = 1
                BY <2>1
            <4>2. u = [k \in 1 .. (m + 1) + 1 |-> IF k <= 1 THEN <<c(i)>>[k] ELSE t[k - 1]]
                BY <2>1, <4>1
            <4>3. ASSUME NEW k \in 1 .. (m + 1) + 1
                  PROVE  (IF k <= 1 THEN <<c(i)>>[k] ELSE t[k - 1]) = c((i + k) - 1)
                <5>1. CASE k = 1
                    <6>1. (i + 1) - 1 = i
                        BY <4>0
                    <6> QED BY <5>1, <6>1
                <5>2. CASE k # 1
                    <6>1. k - 1 \in 1 .. m + 1 /\ (i + 1 + (k - 1)) - 1 = (i + k) - 1 /\ ~ k <= 1
                        BY <2>1, <4>0, <5>2
                    <6> QED BY <6>1
                <5> QED BY <5>1, <5>2
            <4> QED BY <4>2, <4>3
        <3> QED BY <3>1, <3>2, <3>3 DEF c
    <2> QED BY <2>9, <2>10, <2>11, <2>12 DEF s
<1>3. T = Nat
    <2> HIDE DEF T
    <2>1. T \in SUBSET Nat
        BY DEF T
    <2> QED BY <1>1, <1>2, <2>1, NatInd
<1>4. F[Place(base, J, r, J)] = Tail_(base, digits, J, r, J)
    BY <1>0, <1>3
<1>5. Place(base, J, r, J) = [rest |-> num, d |-> TopPower(num, base), n |-> FALSE]
    <2>1. J - J = 0 /\ (J < J) = FALSE
        BY <1>0
    <2>2. r[0] = num
        BY DEF Rests
    <2>3. TopPower(num, base) = p[J]
        BY TopPowerIs
    <2>4. r[J - J] = num
        BY <2>1, <2>2
    <2> HIDE DEF p
    <2> QED BY <2>1, <2>3, <2>4, Zenon DEF Place, p
<1> QED BY <1>4, <1>5, ui2aFrom DEF F

LEMMA Horner ==
    ASSUME NEW num \in Nat, NEW v \in Nat, NEW b \in Nat, NEW q \in Nat, NEW c \in Nat, NEW x \in Nat, NEW y \in Nat,
           v * (b * q) + x = num, x = c * q + y
    PROVE  (v * b + c) * q + y = num
<1>1. (v * b + c) * q = v * (b * q) + c * q
    OBVIOUS
<1> DEFINE f == v * (b * q)
           g == c * q
<1>2. f \in Nat /\ g \in Nat
    OBVIOUS
<1> HIDE DEF f, g
<1> QED BY <1>1, <1>2 DEF f, g

(* V reads the digits D from the left. *)
Reads(V, D, n, base) == V[0] = 0 /\ \A k \in 1 .. n : V[k] = V[k - 1] * base + D[k]

Exact(D, n, num, base) ==
    /\ D \in [1 .. n -> 0 .. base - 1]
    /\ n > 1 => D[1] # 0 /\ Powers(base)[n - 1] <= num
    /\ \A V : Reads(V, D, n, base) => V[n] = num

Numeral(text, num, base, digits) ==
    \E n \in 1 .. WORD : \E D : Exact(D, n, num, base) /\ text = [k \in 1 .. n |-> digits[D[k] + 1]]

(* The text of a number: digits of the base and no zero in front; read back *)
(* from the left they give the number.                                      *)
THEOREM ui2aExact ==
    ASSUME NEW num \in 0 .. WORD - 1, NEW base \in Nat, base >= 2, NEW digits
    PROVE  Numeral(ui2a(num, base, digits), num, base, digits)
<1>1. PICK J : Top(num, base, J)
    BY TopExists
<1>2. J \in Nat /\ J <= WORD - 1 /\ num \in Nat /\ WORD \in Nat
    BY <1>1, WordPositive DEF Top
<1>3. PICK r : Rests(num, base, J, r)
    BY <1>2, RestsExist
<1> DEFINE p == Powers(base)
           D == [k \in 1 .. J + 1 |-> Dgt(base, J, r, k - 1)]
<1>4. /\ \A i \in 0 .. J : /\ r[i] \in Nat /\ r[i + 1] \in Nat
                            /\ Dgt(base, J, r, i) \in 0 .. base - 1
                            /\ r[i] = Dgt(base, J, r, i) * p[J - i] + r[i + 1]
      /\ r[J + 1] = 0
    BY <1>1, <1>3, RestsBound, WordPositive
<1>5. \A k \in 1 .. J + 1 : k - 1 \in 0 .. J /\ J - (k - 1) = (J + 1) - k /\ (k - 1) + 1 = k
    BY <1>2
<1>6. D \in [1 .. J + 1 -> 0 .. base - 1]
    BY <1>4, <1>5
<1>7. ui2a(num, base, digits) = [k \in 1 .. J + 1 |-> digits[D[k] + 1]]
    <2>1. ui2a(num, base, digits) = [k \in 1 .. J + 1 |-> digits[Dgt(base, J, r, ((J - J) + k) - 1) + 1]]
        BY <1>1, <1>3, TextFrom DEF Tail_
    <2>2. \A k \in 1 .. J + 1 : ((J - J) + k) - 1 = k - 1
        BY <1>2
    <2> QED BY <2>1, <2>2
<1>8. ASSUME J + 1 > 1 PROVE D[1] # 0 /\ p[(J + 1) - 1] <= num
    <2>1. J # 0 /\ (J + 1) - 1 = J /\ J \in 0 .. WORD /\ 1 \in 1 .. J + 1 /\ 1 - 1 = 0 /\ J - 0 = J
        BY <1>2, <1>8
    <2>2. p[J] <= num /\ p[J] \in Nat /\ p[J] >= J + 1
        BY <1>1, <2>1, PowersGrow DEF Top
    <2>3. D[1] = num \div p[J]
        BY <1>3, <2>1 DEF Dgt, Rests
    <2> DEFINE d == p[J]
    <2>4. d \in Nat /\ d >= 1 /\ num >= 1 * d
        <3> HIDE DEF p
        <3> QED BY <1>2, <2>2
    <2> HIDE DEF d
    <2>5. num \div d >= 1
        BY <1>2, <2>4, DivBound
    <2>6. D[1] >= 1
        BY <2>3, <2>5 DEF d
    <2> QED BY <2>1, <2>2, <2>6
<1>9. ASSUME NEW V, Reads(V, D, J + 1, base) PROVE V[J + 1] = num
    <2> HIDE DEF D
    <2> DEFINE T == {i \in Nat : i <= J => V[i] \in Nat /\ V[i] * (base * p[J - i]) + r[i] = num}
    <2>0. V[0] = 0 /\ \A i \in 0 .. J : V[i + 1] = V[i] * base + Dgt(base, J, r, i)
        <3>1. V[0] = 0
            BY <1>9 DEF Reads
        <3>2. ASSUME NEW i \in 0 .. J PROVE V[i + 1] = V[i] * base + Dgt(base, J, r, i)
            <4>1. i + 1 \in 1 .. J + 1 /\ (i + 1) - 1 = i
                BY <1>2
            <4>2. V[i + 1] = V[(i + 1) - 1] * base + D[i + 1]
                BY <1>9, <4>1 DEF Reads
            <4>3. D[i + 1] = Dgt(base, J, r, i)
                BY <4>1 DEF D
            <4> QED BY <4>1, <4>2, <4>3
        <3> QED BY <3>1, <3>2
    <2>a. ASSUME NEW i \in 0 .. J, V[i] \in Nat, V[i] * (base * p[J - i]) + r[i] = num
          PROVE  V[i + 1] \in Nat /\ V[i + 1] * p[J - i] + r[i + 1] = num
        <3> DEFINE v == V[i]
                   q == p[J - i]
                   c == Dgt(base, J, r, i)
                   x == r[i]
                   y == r[i + 1]
        <3>1. J - i \in 0 .. WORD
            BY <1>2
        <3>2. q \in Nat /\ v \in Nat /\ c \in Nat /\ x \in Nat /\ y \in Nat /\ x = c * q + y
            BY <1>4, <2>a, <3>1, PowersGrow
        <3>3. v * (base * q) + x = num
            BY <2>a
        <3>4. V[i + 1] = v * base + c
            BY <2>0
        <3> HIDE DEF v, q, c, x, y
        <3>5. (v * base + c) * q + y = num
            BY <1>2, <3>2, <3>3, Horner
        <3>6. v * base + c \in Nat
            BY <3>2
        <3> QED BY <3>4, <3>5, <3>6 DEF q, y
    <2>1. 0 \in T
        <3>1. V[0] = 0 /\ r[0] = num /\ J - 0 = J /\ J \in 0 .. WORD
            BY <1>2, <1>3, <2>0 DEF Rests
        <3>2. base * p[J] \in Nat
            BY <3>1, PowersGrow
        <3> DEFINE z == base * p[J]
        <3> HIDE DEF z
        <3>3. 0 * z + num = num
            BY <1>2, <3>2 DEF z
        <3>4. V[0] * (base * p[J - 0]) + r[0] = num
            BY <3>1, <3>3 DEF z
        <3> QED BY <3>1, <3>4
    <2>2. \A i \in T : i + 1 \in T
        <3> SUFFICES ASSUME NEW i \in T, i + 1 <= J
                     PROVE  V[i + 1] \in Nat /\ V[i + 1] * (base * p[J - (i + 1)]) + r[i + 1] = num
            OBVIOUS
        <3>1. i \in 0 .. J /\ i <= J /\ J - (i + 1) \in 0 .. WORD - 1 /\ (J - (i + 1)) + 1 = J - i
            BY <1>2
        <3>2. V[i + 1] \in Nat /\ V[i + 1] * p[J - i] + r[i + 1] = num
            BY <2>a, <3>1
        <3>3. p[J - i] = base * p[J - (i + 1)]
            BY <3>1, PowersStep
        <3> QED BY <3>2, <3>3
    <2>3. T = Nat
        <3> HIDE DEF T
        <3>1. T \in SUBSET Nat
            BY DEF T
        <3> QED BY <2>1, <2>2, <3>1, NatInd
    <2>4. V[J] \in Nat /\ V[J] * (base * p[J - J]) + r[J] = num
        BY <1>2, <2>3
    <2>5. J \in 0 .. J /\ J - J = 0
        BY <1>2
    <2>6. V[J + 1] \in Nat /\ V[J + 1] * p[J - J] + r[J + 1] = num
        BY <2>4, <2>5, <2>a
    <2>7. p[J - J] = 1 /\ r[J + 1] = 0
        BY <1>4, <2>5, PowersDef
    <2> QED BY <2>6, <2>7
<1>10. J + 1 \in 1 .. WORD
    BY <1>2
<1>11. Exact(D, J + 1, num, base)
    BY <1>6, <1>8, <1>9 DEF Exact
<1> HIDE DEF D
<1> QED BY <1>7, <1>10, <1>11 DEF Numeral

-----------------------------------------------------------------------------
(* How long the text is *)

LEMMA PowersOfMore ==
    ASSUME NEW base \in Nat, base >= 10
    PROVE  \A i \in 0 .. WORD : Powers(10)[i] <= Powers(base)[i]
<1> DEFINE p == Powers(10)
           q == Powers(base)
           T == {i \in Nat : i <= WORD => p[i] <= q[i]}
<1>0. p[0] = 1 /\ q[0] = 1
    BY PowersDef
<1>a. \A i \in 0 .. WORD - 1 : /\ p[i + 1] = 10 * p[i] /\ p[i] \in Nat
                               /\ q[i + 1] = base * q[i] /\ q[i] \in Nat
    BY PowersStep
<1> HIDE DEF p, q
<1>1. 0 \in T
    BY <1>0
<1>2. \A i \in T : i + 1 \in T
    <2> SUFFICES ASSUME NEW i \in T, i + 1 <= WORD PROVE p[i + 1] <= q[i + 1]
        OBVIOUS
    <2>1. i \in 0 .. WORD - 1 /\ p[i] <= q[i]
        BY WordPositive
    <2> DEFINE x == p[i]
               y == q[i]
    <2>2. x \in Nat /\ y \in Nat /\ x <= y /\ p[i + 1] = 10 * x /\ q[i + 1] = base * y
        BY <1>a, <2>1
    <2> HIDE DEF x, y
    <2>3. 10 * x <= 10 * y /\ 10 * y <= base * y
        BY <2>2
    <2>4. 10 * x \in Nat /\ 10 * y \in Nat /\ base * y \in Nat
        BY <2>2
    <2> QED BY <2>2, <2>3, <2>4
<1>3. T = Nat
    <2> HIDE DEF T
    <2>1. T \in SUBSET Nat
        BY DEF T
    <2> QED BY <1>1, <1>2, <2>1, NatInd
<1>4. \A i \in 0 .. WORD : p[i] <= q[i]
    BY <1>3, WordPositive
<1> QED BY <1>4 DEF p, q

(* N decimal digits are enough for a word. *)
Fits(N) == N \in 1 .. WORD /\ WORD <= Powers(10)[N]

LEMMA ExactFits ==
    ASSUME NEW num \in 0 .. WORD - 1, NEW base \in Nat, base >= 10, NEW n \in 1 .. WORD, NEW D,
           Exact(D, n, num, base), NEW N, Fits(N)
    PROVE  n <= N
<1>1. N \in Nat /\ N >= 1 /\ N <= WORD /\ n \in Nat /\ n <= WORD /\ num \in Nat /\ num < WORD /\ WORD \in Nat
    BY WordPositive DEF Fits
<1> SUFFICES ASSUME n > N PROVE FALSE
    BY <1>1
<1> DEFINE i == n - 1
<1>2. N \in 0 .. WORD /\ i \in N .. WORD /\ n > 1
    BY <1>1
<1>3. Powers(base)[i] <= num
    BY <1>2 DEF Exact
<1>4. Powers(base)[N] <= Powers(base)[i]
    BY <1>2, PowersMonotonic
<1>5. Powers(10)[N] <= Powers(base)[N]
    BY <1>2, PowersOfMore
<1>6. Powers(10)[N] \in Nat /\ Powers(base)[N] \in Nat /\ Powers(base)[i] \in Nat
    BY <1>1, <1>2, PowersGrow
<1>7. WORD <= Powers(10)[N]
    BY DEF Fits
<1> QED BY <1>1, <1>3, <1>4, <1>5, <1>6, <1>7

LEMMA ui2aLength ==
    ASSUME NEW num \in 0 .. WORD - 1, NEW base \in Nat, base >= 10, NEW digits, NEW N, Fits(N)
    PROVE  Len(ui2a(num, base, digits)) \in 1 .. N
<1>1. PICK n, D : n \in 1 .. WORD /\ Exact(D, n, num, base) /\ ui2a(num, base, digits) = [k \in 1 .. n |-> digits[D[k] + 1]]
    <2>1. base >= 2
        OBVIOUS
    <2>2. Numeral(ui2a(num, base, digits), num, base, digits)
        BY <2>1, ui2aExact
    <2> QED BY <2>2 DEF Numeral
<1>2. n <= N
    BY <1>1, ExactFits
<1>3. n \in Nat /\ n >= 1 /\ N \in Nat
    BY <1>1, WordPositive DEF Fits
<1>4. Len(ui2a(num, base, digits)) = n
    BY <1>1, <1>3
<1> QED BY <1>2, <1>3, <1>4

LEMMA i2aShape ==
    ASSUME NEW num \in 0 .. WORD - 1, Negative(num)
    PROVE  WORD - num \in 0 .. WORD - 1 /\ i2a(num) = <<"-">> \o ui2a(WORD - num, 10, Lower)
<1>1. WORD \in Nat /\ WORD % 2 = 0 /\ WORD >= 1
    BY WordAssumption
<1>2. WORD \div 2 >= 1
    BY <1>1
<1>3. num \in Nat /\ num >= 1 /\ num < WORD
    BY <1>1, <1>2 DEF Negative
<1>4. WORD - num \in 0 .. WORD - 1 /\ (WORD - num) % WORD = WORD - num
    BY <1>1, <1>3
<1> QED BY <1>4 DEF i2a

(* A number takes no more than the digits of a word and a sign. *)
LEMMA i2aLength ==
    ASSUME NEW num \in 0 .. WORD - 1, NEW N, Fits(N)
    PROVE  Len(i2a(num)) \in 1 .. N + 1
<1>0. N \in Nat /\ WORD \in Nat
    BY WordPositive DEF Fits
<1>1. CASE Negative(num)
    <2> DEFINE m == WORD - num
               t == ui2a(m, 10, Lower)
    <2>1. m \in 0 .. WORD - 1 /\ i2a(num) = <<"-">> \o t
        BY <1>1, i2aShape
    <2> HIDE DEF m
    <2>2. Len(t) \in 1 .. N
        BY <2>1, ui2aLength
    <2>2a. Numeral(t, m, 10, Lower)
        BY <2>1, ui2aExact
    <2>3a. PICK n \in 1 .. WORD : \E D : Exact(D, n, m, 10) /\ t = [k \in 1 .. n |-> Lower[D[k] + 1]]
        BY <2>2a, Zenon DEF Numeral
    <2>3. PICK D : t = [k \in 1 .. n |-> Lower[D[k] + 1]]
        BY <2>3a
    <2> HIDE DEF t
    <2>4. n \in Nat /\ Len(t) = n
        BY <1>0, <2>3
    <2>5. Len(<<"-">> \o t) = 1 + n
        BY <2>3, <2>4
    <2> QED BY <1>0, <2>1, <2>2, <2>4, <2>5
<1>2. CASE ~ Negative(num)
    <2>1. Len(ui2a(num, 10, Lower)) \in 1 .. N
        BY ui2aLength
    <2>2. i2a(num) = ui2a(num, 10, Lower)
        BY <1>2 DEF i2a
    <2> QED BY <1>0, <2>1, <2>2
<1> QED BY <1>1, <1>2
=============================================================================
