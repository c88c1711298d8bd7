---------------------------- MODULE KHeapProofs -----------------------------
(***************************************************************************)
(* Proofs about the heap, for every size of a page, of the heap and of the *)
(* requests, and for clients that use the heap as a stack (Plain): they    *)
(* never ask for page aligned blocks, and give back nothing or always the  *)
(* latest block.                                                           *)
(***************************************************************************)
EXTENDS KHeap, SequenceTheorems, FiniteSetTheorems, TLAPS

Words == 0 .. WRAP - 1
HeapT(max) == [mem : [start_address - PAGE .. max - 1 -> Words], index : Seq(Words),
               end : Words, framed : SUBSET Int, freed : SUBSET Int,
               stop : {"no", "oom", "assert", "fault"}]
-----------------------------------------------------------------------------
(* Pages *)

LEMMA Constants ==
    /\ PAGE \in Nat /\ PAGE > 5 /\ HDR = 3 /\ FTR = 2
    /\ KHEAP_START \in Nat /\ KHEAP_START >= PAGE /\ HEAP_INDEX_SIZE \in Nat
    /\ HEAP_MIN_SIZE \in Nat /\ WRAP \in Nat /\ HEAP_MAGIC \in Words
    /\ Garbage \subseteq Words /\ Data \subseteq Words /\ HEAP_MAGIC \notin Garbage
BY PageAssumption, StartAssumption, MinAssumption, GarbageAssumption, WordAssumption
   DEF HDR, FTR, Words

LEMMA TimesMonotonic ==
    ASSUME NEW a \in Nat, NEW b \in Nat, NEW c \in Nat, a <= b
    PROVE  c * a <= c * b
OBVIOUS

LEMMA DivMod ==
    ASSUME NEW x \in Nat
    PROVE  /\ x \div PAGE \in Nat /\ x % PAGE \in 0 .. PAGE - 1
           /\ x = PAGE * (x \div PAGE) + (x % PAGE)
<1> DEFINE q == x \div PAGE
           r == x % PAGE
<1>1. x = PAGE * q + r /\ r \in 0 .. PAGE - 1 /\ q \in Int
    BY Constants
<1> HIDE DEF q, r
<1>2. q >= 0
    BY <1>1, Constants
<1> QED BY <1>1, <1>2 DEF q, r

LEMMA DivUnique ==
    ASSUME NEW x \in Nat, NEW q \in Nat, PAGE * q <= x, x < PAGE * q + PAGE
    PROVE  x \div PAGE = q
<1> DEFINE p == x \div PAGE
           r == x % PAGE
<1>1. p \in Nat /\ r \in 0 .. PAGE - 1 /\ x = PAGE * p + r
    BY DivMod
<1>2. PAGE \in Nat /\ PAGE > 0
    BY Constants
<1> HIDE DEF p, r
<1>3. ~ (p + 1 <= q)
    <2> SUFFICES ASSUME p + 1 <= q PROVE FALSE
        OBVIOUS
    <2>1. PAGE * (p + 1) <= PAGE * q
        BY <1>1, <1>2, TimesMonotonic
    <2>2. PAGE * (p + 1) = PAGE * p + PAGE
        BY <1>1, <1>2
    <2> QED BY <1>1, <1>2, <2>1, <2>2
<1>4. ~ (q + 1 <= p)
    <2> SUFFICES ASSUME q + 1 <= p PROVE FALSE
        OBVIOUS
    <2>1. PAGE * (q + 1) <= PAGE * p
        BY <1>1, <1>2, TimesMonotonic
    <2>2. PAGE * (q + 1) = PAGE * q + PAGE
        BY <1>1, <1>2
    <2> QED BY <1>1, <1>2, <2>1, <2>2
<1>5. p = q
    BY <1>1, <1>3, <1>4
<1> QED BY <1>5 DEF p

LEMMA DivMonotonic ==
    ASSUME NEW x \in Nat, NEW y \in Nat, x <= y
    PROVE  x \div PAGE <= y \div PAGE
<1> DEFINE p == x \div PAGE
           q == y \div PAGE
<1>1. p \in Nat /\ q \in Nat /\ PAGE * p <= x /\ y < PAGE * q + PAGE
    <2>1. p \in Nat /\ x % PAGE \in 0 .. PAGE - 1 /\ x = PAGE * p + (x % PAGE)
        BY DivMod
    <2>2. q \in Nat /\ y % PAGE \in 0 .. PAGE - 1 /\ y = PAGE * q + (y % PAGE)
        BY DivMod
    <2> HIDE DEF p, q
    <2> QED BY <2>1, <2>2, Constants
<1> HIDE DEF p, q
<1>2. ~ (q + 1 <= p)
    <2> SUFFICES ASSUME q + 1 <= p PROVE FALSE
        OBVIOUS
    <2>1. PAGE * (q + 1) <= PAGE * p
        BY <1>1, Constants, TimesMonotonic
    <2>2. PAGE * (q + 1) = PAGE * q + PAGE
        BY <1>1, Constants
    <2> QED BY <1>1, <2>1, <2>2, Constants
<1>3. p <= q
    BY <1>1, <1>2
<1> QED BY <1>3 DEF p, q

(* An address in front of a page boundary is in an earlier page.            *)
LEMMA DivBelow ==
    ASSUME NEW x \in Nat, NEW y \in Nat, y % PAGE = 0, x < y
    PROVE  x \div PAGE < y \div PAGE
<1> DEFINE p == x \div PAGE
           q == y \div PAGE
<1>1. p \in Nat /\ q \in Nat /\ PAGE * p <= x /\ y = PAGE * q
    <2>1. p \in Nat /\ x % PAGE \in 0 .. PAGE - 1 /\ x = PAGE * p + (x % PAGE)
        BY DivMod
    <2>2. q \in Nat /\ y = PAGE * q + 0
        BY DivMod
    <2> HIDE DEF p, q
    <2> QED BY <2>1, <2>2, Constants
<1> HIDE DEF p, q
<1>2. ~ (q <= p)
    <2> SUFFICES ASSUME q <= p PROVE FALSE
        OBVIOUS
    <2>1. PAGE * q <= PAGE * p
        BY <1>1, Constants, TimesMonotonic
    <2> QED BY <1>1, <2>1, Constants
<1>3. p < q
    BY <1>1, <1>2
<1> QED BY <1>3 DEF p, q

(* Multiples of a page. *)
LEMMA ModMultiple ==
    ASSUME NEW q \in Nat
    PROVE  (PAGE * q) % PAGE = 0
<1> DEFINE x == PAGE * q
           p == x \div PAGE
           r == x % PAGE
<1>1. x \in Nat /\ PAGE * q <= x /\ x < PAGE * q + PAGE
    BY Constants
<1>2. p = q
    BY <1>1, DivUnique
<1>3. r \in Int /\ x = PAGE * p + r
    BY <1>1, DivMod
<1> HIDE DEF p, r
<1>4. r = 0
    BY <1>1, <1>2, <1>3, Constants
<1> QED BY <1>4 DEF r

LEMMA RoundUpMeans ==
    ASSUME NEW x \in Nat, x >= PAGE
    PROVE  RoundUp(x) \in Nat /\ RoundUp(x) % PAGE = 0 /\ RoundUp(x) > x /\ RoundUp(x) >= 2 * PAGE
<1> DEFINE q == x \div PAGE
           r == x % PAGE
<1>1. q \in Nat /\ r \in 0 .. PAGE - 1 /\ x = PAGE * q + r
    BY DivMod
<1>2. RoundUp(x) = (x - r) + PAGE
    BY DEF RoundUp
<1> HIDE DEF q, r
<1>3. RoundUp(x) = PAGE * (q + 1) /\ q + 1 \in Nat
    BY <1>1, <1>2, Constants
<1>4. RoundUp(x) % PAGE = 0
    BY <1>3, ModMultiple
<1>5. q >= 1
    BY <1>1, Constants
<1>6. PAGE * (q + 1) = PAGE * q + PAGE /\ PAGE * q >= PAGE
    BY <1>1, <1>5, Constants
<1> QED BY <1>1, <1>2, <1>3, <1>4, <1>6, Constants

LEMMA Start ==
    start_address \in Nat /\ start_address % PAGE = 0 /\ start_address >= 2 * PAGE
BY Constants, RoundUpMeans DEF start_address

(* Sums and differences of page boundaries are page boundaries.             *)
LEMMA SumAligned ==
    ASSUME NEW x \in Nat, NEW y \in Nat, x % PAGE = 0, y % PAGE = 0
    PROVE  (x + y) % PAGE = 0 /\ (x >= y => (x - y) % PAGE = 0)
<1> DEFINE p == x \div PAGE
           q == y \div PAGE
<1>1. p \in Nat /\ x = PAGE * p + 0 /\ q \in Nat /\ y = PAGE * q + 0
    BY DivMod
<1> HIDE DEF p, q
<1>2. x + y = PAGE * (p + q) /\ p + q \in Nat
    BY <1>1, Constants
<1>3. (x + y) % PAGE = 0
    BY <1>2, ModMultiple
<1>4. ASSUME x >= y PROVE (x - y) % PAGE = 0
    <2>1. ~ (p + 1 <= q)
        <3> SUFFICES ASSUME p + 1 <= q PROVE FALSE
            OBVIOUS
        <3>1. PAGE * (p + 1) <= PAGE * q
            BY <1>1, Constants, TimesMonotonic
        <3>2. PAGE * (p + 1) = PAGE * p + PAGE
            BY <1>1, Constants
        <3> QED BY <1>1, <1>4, <3>1, <3>2, Constants
    <2>2. p - q \in Nat
        BY <1>1, <2>1
    <2>3. x - y = PAGE * (p - q)
        BY <1>1, Constants
    <2> QED BY <2>2, <2>3, ModMultiple
<1> QED BY <1>3, <1>4
-----------------------------------------------------------------------------
(* Stores *)

(* Every page of the heap has its frame. *)
Backed(g) == \A x \in start_address .. g.end - 1 : x \div PAGE \in g.framed

(* Two heaps that differ in their memory only. *)
Same(g, k) == /\ g.index = k.index /\ g.end = k.end /\ g.framed = k.framed
              /\ g.freed = k.freed /\ g.stop = k.stop

LEMMA StoreThree ==
    ASSUME NEW max \in Nat, NEW g \in HeapT(max), g.end <= max, Backed(g),
           NEW a \in Nat, start_address <= a, a + 2 < g.end,
           NEW u \in Words, NEW v \in Words, NEW w \in Words,
           NEW n, n = Store(g, a, <<u, v, w>>)
    PROVE  /\ n \in HeapT(max) /\ Same(n, g)
           /\ n.mem[a] = u /\ n.mem[a + 1] = v /\ n.mem[a + 2] = w
           /\ \A x \in DOMAIN g.mem : x \notin {a, a + 1, a + 2} => n.mem[x] = g.mem[x]
<1> DEFINE D == start_address - PAGE .. max - 1
           m == [x \in D |-> IF x = a + 2 THEN w ELSE IF x = a + 1 THEN v ELSE IF x = a THEN u ELSE g.mem[x]]
<1>1. /\ g.mem \in [D -> Words] /\ g.end \in Nat
    BY DEF HeapT, Words
<1>2. a \in D /\ a + 1 \in D /\ a + 2 \in D
    BY <1>1, Constants, Start
<1>3. \A x \in a .. a + Len(<<u, v, w>>) - 1 : Present(g, x)
    <2>1. \A x \in a .. a + 2 : x \in start_address .. g.end - 1
        BY <1>1, Start
    <2> QED BY <2>1 DEF Backed, Present
<1>4. n = [g EXCEPT !.mem = m]
    <2> DEFINE t == <<u, v, w>>
               b == IF Len(t) > 1 THEN t[2] ELSE Word(g, a + 1)
               c == IF Len(t) > 2 THEN t[3] ELSE Word(g, a + 2)
               f == [g.mem EXCEPT ![a] = t[1], ![a + 1] = b, ![a + 2] = c]
    <2>1. n = [g EXCEPT !.mem = f]
        BY <1>3 DEF Store
    <2>2. Len(t) = 3 /\ t[1] = u /\ t[2] = v /\ t[3] = w
        OBVIOUS
    <2>6. b = v /\ c = w
        BY <2>2
    <2> HIDE DEF t, b, c
    <2>3. f = [x \in D |-> f[x]]
        BY <1>1
    <2>7. \A x \in D : f[x] = IF x = a + 2 THEN c ELSE IF x = a + 1 THEN b
                              ELSE IF x = a THEN t[1] ELSE g.mem[x]
        BY <1>1, <1>2
    <2> HIDE DEF f
    <2>8. \A x \in D : Word(g, x) = g.mem[x]
        BY <1>1 DEF Word
    <2>4. \A x \in D : f[x] = m[x]
        BY <1>2, <2>2, <2>6, <2>7, <2>8
    <2>5. f = m
        BY <2>3, <2>4
    <2> HIDE DEF f, m
    <2> QED BY <2>1, <2>5
<1>5. m \in [D -> Words]
    BY <1>1
<1>6. n \in HeapT(max) /\ Same(n, g) /\ n.mem = m
    BY <1>4, <1>5 DEF HeapT, Same
<1>7. m[a] = u /\ m[a + 1] = v /\ m[a + 2] = w
    BY <1>1, <1>2
<1>8. \A x \in DOMAIN g.mem : x \notin {a, a + 1, a + 2} => m[x] = g.mem[x]
    BY <1>1
<1> QED BY <1>6, <1>7, <1>8

LEMMA StoreTwo ==
    ASSUME NEW max \in Nat, NEW g \in HeapT(max), g.end <= max, Backed(g),
           NEW a \in Nat, start_address <= a, a + 1 < g.end,
           NEW u \in Words, NEW v \in Words,
           NEW n, n = Store(g, a, <<u, v>>)
    PROVE  /\ n \in HeapT(max) /\ Same(n, g)
           /\ n.mem[a] = u /\ n.mem[a + 1] = v
           /\ \A x \in DOMAIN g.mem : x \notin {a, a + 1} => n.mem[x] = g.mem[x]
<1> DEFINE D == start_address - PAGE .. max - 1
           m == [x \in D |-> IF x = a + 1 THEN v ELSE IF x = a THEN u ELSE g.mem[x]]
<1>1. /\ g.mem \in [D -> Words] /\ g.end \in Nat
    BY DEF HeapT, Words
<1>2. a \in D /\ a + 1 \in D
    BY <1>1, Constants, Start
<1>3. \A x \in a .. a + Len(<<u, v>>) - 1 : Present(g, x)
    <2>1. \A x \in a .. a + 1 : x \in start_address .. g.end - 1
        BY <1>1, Start
    <2> QED BY <2>1 DEF Backed, Present
<1>4. n = [g EXCEPT !.mem = m]
    <2> DEFINE t == <<u, v>>
               b == IF Len(t) > 1 THEN t[2] ELSE Word(g, a + 1)
               c == IF Len(t) > 2 THEN t[3] ELSE Word(g, a + 2)
               f == [g.mem EXCEPT ![a] = t[1], ![a + 1] = b, ![a + 2] = c]
    <2>1. n = [g EXCEPT !.mem = f]
        BY <1>3 DEF Store
    <2>2. Len(t) = 2 /\ t[1] = u /\ t[2] = v
        OBVIOUS
    <2>6. b = v /\ c = Word(g, a + 2)
        BY <2>2
    <2> HIDE DEF t, b, c
    <2>3. f = [x \in D |-> f[x]]
        BY <1>1
    <2>7. \A x \in D : f[x] = IF x = a + 2 THEN c ELSE IF x = a + 1 THEN b
                              ELSE IF x = a THEN t[1] ELSE g.mem[x]
        BY <1>1, <1>2
    <2> HIDE DEF f
    <2>8. \A x \in D : Word(g, x) = g.mem[x]
        BY <1>1 DEF Word
    <2>4. \A x \in D : f[x] = m[x]
        BY <1>2, <2>2, <2>6, <2>7, <2>8
    <2>5. f = m
        BY <2>3, <2>4
    <2> HIDE DEF f, m
    <2> QED BY <2>1, <2>5
<1>5. m \in [D -> Words]
    BY <1>1
<1>6. n \in HeapT(max) /\ Same(n, g) /\ n.mem = m
    BY <1>4, <1>5 DEF HeapT, Same
<1>7. m[a] = u /\ m[a + 1] = v
    BY <1>1, <1>2
<1>8. \A x \in DOMAIN g.mem : x \notin {a, a + 1} => m[x] = g.mem[x]
    BY <1>1
<1> QED BY <1>6, <1>7, <1>8

LEMMA StoreOne ==
    ASSUME NEW max \in Nat, NEW g \in HeapT(max), g.end <= max, Backed(g),
           NEW a \in Nat, start_address <= a, a < g.end, NEW u \in Words,
           NEW n, n = Store(g, a, <<u>>)
    PROVE  /\ n \in HeapT(max) /\ Same(n, g) /\ n.mem[a] = u
           /\ \A x \in DOMAIN g.mem : x # a => n.mem[x] = g.mem[x]
<1> DEFINE D == start_address - PAGE .. max - 1
           m == [x \in D |-> IF x = a THEN u ELSE g.mem[x]]
<1>1. /\ g.mem \in [D -> Words] /\ g.end \in Nat
    BY DEF HeapT, Words
<1>2. a \in D
    BY <1>1, Constants, Start
<1>3. \A x \in a .. a + Len(<<u>>) - 1 : Present(g, x)
    <2>1. \A x \in a .. a : x \in start_address .. g.end - 1
        BY <1>1, Start
    <2> QED BY <2>1 DEF Backed, Present
<1>4. n = [g EXCEPT !.mem = m]
    <2> DEFINE t == <<u>>
               b == IF Len(t) > 1 THEN t[2] ELSE Word(g, a + 1)
               c == IF Len(t) > 2 THEN t[3] ELSE Word(g, a + 2)
               f == [g.mem EXCEPT ![a] = t[1], ![a + 1] = b, ![a + 2] = c]
    <2>1. n = [g EXCEPT !.mem = f]
        BY <1>3 DEF Store
    <2>2. Len(t) = 1 /\ t[1] = u
        OBVIOUS
    <2>6. b = Word(g, a + 1) /\ c = Word(g, a + 2)
        BY <2>2
    <2> HIDE DEF t, b, c
    <2>3. f = [x \in D |-> f[x]]
        BY <1>1
    <2>7. \A x \in D : f[x] = IF x = a + 2 THEN c ELSE IF x = a + 1 THEN b
                              ELSE IF x = a THEN t[1] ELSE g.mem[x]
        BY <1>1, <1>2
    <2> HIDE DEF f
    <2>8. \A x \in D : Word(g, x) = g.mem[x]
        BY <1>1 DEF Word
    <2>4. \A x \in D : f[x] = m[x]
        BY <1>2, <2>2, <2>6, <2>7, <2>8
    <2>5. f = m
        BY <2>3, <2>4
    <2> HIDE DEF f, m
    <2> QED BY <2>1, <2>5
<1>5. m \in [D -> Words]
    BY <1>1
<1>6. n \in HeapT(max) /\ Same(n, g) /\ n.mem = m
    BY <1>4, <1>5 DEF HeapT, Same
<1>7. m[a] = u
    BY <1>1, <1>2
<1>8. \A x \in DOMAIN g.mem : x # a => m[x] = g.mem[x]
    BY <1>1
<1> QED BY <1>6, <1>7, <1>8

LEMMA WrapSmall ==
    ASSUME NEW x \in Words
    PROVE  Wrap(x) = x
BY Constants DEF Wrap, Words

LEMMA InsertFirst ==
    ASSUME NEW x, NEW key
    PROVE  insert_ordered_array(x, << >>, key) = <<x>>
<1> DEFINE p == CHOOSE p \in 1 .. Len(<< >>) + 1 : StopsAt(p, x, << >>, key)
<1>1. StopsAt(1, x, << >>, key)
    BY DEF StopsAt
<1>2. \A q \in 1 .. Len(<< >>) + 1 : q = 1
    OBVIOUS
<1>3. p = 1
    BY <1>1, <1>2
<1> HIDE DEF p
<1>4. insert_ordered_array(x, << >>, key) = InsertAt(<< >>, p, x)
    BY DEF insert_ordered_array, p
<1>5. SubSeq(<< >>, 1, 0) = << >>
    OBVIOUS
<1> QED BY <1>3, <1>4, <1>5 DEF InsertAt

LEMMA RemoveOnly ==
    ASSUME NEW x
    PROVE  RemoveAt(<<x>>, 1) = << >>
<1>1. SubSeq(<<x>>, 1, 0) = << >> /\ SubSeq(<<x>>, 2, 1) = << >>
    OBVIOUS
<1> QED BY <1>1 DEF RemoveAt

(* The index with one hole or none: what looking it up gives. *)
LEMMA SelectOnly ==
    ASSUME NEW x
    PROVE  /\ SelectInSeq(<<x>>, LAMBDA v : v = x) = 1
           /\ RemoveFirst(<<x>>, x) = << >>
<1> DEFINE I == {i \in 1 .. Len(<<x>>) : <<x>>[i] = x}
<1>1. I = {1}
    OBVIOUS
<1>2. Min({1}) = 1
    BY DEF Min
<1>3. SelectInSeq(<<x>>, LAMBDA v : v = x) = 1
    BY <1>1, <1>2 DEF SelectInSeq
<1> QED BY <1>3, RemoveOnly DEF RemoveFirst

LEMMA FindMeans ==
    ASSUME NEW g, NEW size
    PROVE  /\ g.index = << >> => find_smallest_hole(size, FALSE, g) = 0
           /\ \A t : g.index = <<t>> =>
                find_smallest_hole(size, FALSE, g) = IF Size(g, t) >= size THEN 1 ELSE 0
<1> DEFINE I == {i \in 1 .. Len(g.index) : Size(g, g.index[i]) >= size}
<1>1. find_smallest_hole(size, FALSE, g) = IF I # {} THEN Min(I) ELSE 0
    BY DEF find_smallest_hole, SelectInSeq
<1>2. Min({1}) = 1
    BY DEF Min
<1>3. ASSUME g.index = << >> PROVE find_smallest_hole(size, FALSE, g) = 0
    <2>1. I = {}
        BY <1>3
    <2> QED BY <1>1, <2>1
<1>4. ASSUME NEW t, g.index = <<t>>
      PROVE  find_smallest_hole(size, FALSE, g) = IF Size(g, t) >= size THEN 1 ELSE 0
    <2>1. I = IF Size(g, t) >= size THEN {1} ELSE {}
        BY <1>4
    <2> QED BY <1>1, <1>2, <2>1
<1> QED BY <1>3, <1>4
-----------------------------------------------------------------------------
(* The layout of a heap that is used as a stack *)

HeadOf(b) == b.ptr - HDR
EndOf(m, b) == HeadOf(b) + m[HeadOf(b) + 2]

(* A block with its markers. *)
Block(m, b) ==
    /\ start_address <= HeadOf(b) /\ b.size + HDR + FTR <= m[HeadOf(b) + 2]
    /\ m[HeadOf(b)] = HEAP_MAGIC /\ m[HeadOf(b) + 1] = 0
    /\ m[EndOf(m, b) - 2] = HEAP_MAGIC /\ m[EndOf(m, b) - 1] = HeadOf(b)

(* Blocks lie one behind the other, from the first address of the heap. *)
Stack(m, lv, end) ==
    /\ \A i \in 1 .. Len(lv) :
          Block(m, lv[i]) /\ HeadOf(lv[i]) + 5 <= end /\ EndOf(m, lv[i]) <= end
    /\ \A i, j \in 1 .. Len(lv) : i < j => EndOf(m, lv[i]) <= HeadOf(lv[j])
    /\ \A i \in 1 .. Len(lv) :
          HeadOf(lv[i]) = IF i = 1 THEN start_address ELSE EndOf(m, lv[i - 1])

Top(m, lv) == IF Len(lv) = 0 THEN start_address ELSE EndOf(m, lv[Len(lv)])

(* From t on there is nothing or one hole, which the index lists. *)
Hole(g, t) ==
    \/ g.index = << >> /\ t = g.end
    \/ /\ g.index = <<t>> /\ t + HDR + FTR <= g.end
       /\ g.mem[t] = HEAP_MAGIC /\ g.mem[t + 1] = 1 /\ g.mem[t + 2] = g.end - t

(* The heap ends with a page, has all its frames, and the word in which     *)
(* free looks for a footer in front of the first block holds none.          *)
Ground(g, max) ==
    /\ max \in Nat /\ max < WRAP /\ g \in HeapT(max)
    /\ g.end % PAGE = 0 /\ start_address < g.end /\ g.end <= max /\ Backed(g)
    /\ g.mem[start_address - 2] # HEAP_MAGIC

LEMMA GroundTypes ==
    ASSUME NEW max, NEW g, Ground(g, max)
    PROVE  /\ max \in Nat /\ WRAP \in Nat /\ max < WRAP
           /\ g.end \in Nat /\ start_address < g.end /\ g.end <= max
           /\ g.mem \in [start_address - PAGE .. max - 1 -> Words]
           /\ DOMAIN g.mem = start_address - PAGE .. max - 1
           /\ \A x : start_address - PAGE <= x /\ x < max /\ x \in Int => Word(g, x) = g.mem[x] /\ g.mem[x] \in Words
<1>1. /\ max \in Nat /\ g.end \in Nat
      /\ g.mem \in [start_address - PAGE .. max - 1 -> Words]
    BY DEF Ground, HeapT, Words
<1>2. \A x \in start_address - PAGE .. max - 1 : Word(g, x) = g.mem[x] /\ g.mem[x] \in Words
    BY <1>1 DEF Word
<1> QED BY <1>1, <1>2, Constants, Start DEF Ground

(* The size of the block alloc makes of the hole from t to end: what is too *)
(* little for a hole of its own goes with it.                               *)
NewSize(end, t, size) == IF end - t - (size + 5) < 5 THEN end - t ELSE size + 5

(* c is the result of taking a block of n words from the hole at t. *)
Carved(c, g, t, n, max) ==
    /\ c.ptr = t + 3 /\ Ground(c.heap, max) /\ c.heap.end = g.end /\ c.heap.stop = g.stop
    /\ \A x \in start_address - PAGE .. max - 1 : x < t => c.heap.mem[x] = g.mem[x]
    /\ c.heap.mem[t] = HEAP_MAGIC /\ c.heap.mem[t + 1] = 0 /\ c.heap.mem[t + 2] = n
    /\ c.heap.mem[(t + n) - 2] = HEAP_MAGIC /\ c.heap.mem[(t + n) - 1] = t
    /\ Hole(c.heap, t + n)

LEMMA CarveMeans ==
    ASSUME NEW max, NEW g, Ground(g, max), NEW t \in Nat, start_address <= t,
           g.index = <<t>>, Hole(g, t), NEW e \in Nat, g.end = e, NEW size \in Nat, size + 5 <= e - t
    PROVE  /\ NewSize(e, t, size) \in Nat /\ size + 5 <= NewSize(e, t, size)
           /\ Carved(Carve(size, FALSE, 1, g), g, t, NewSize(e, t, size), max)
<1> DEFINE sz     == e - t
           over   == sz - (size + 5)
           new    == NewSize(e, t, size)
           size1  == IF over < 5 THEN size + over ELSE size
           h1     == [g EXCEPT !.index = << >>]
           h2     == StoreHeader(h1, t, 0, new)
           h3     == StoreFooter(h2, t + 3 + size1, t)
           rest   == sz - new
           after  == t + new
           h4     == StoreHeader(h3, after, 1, rest)
           h5     == StoreFooter(h4, e - 2, after)
           D      == start_address - PAGE .. max - 1
<1>1. /\ max \in Nat /\ WRAP \in Nat /\ max < WRAP /\ e <= max /\ t < e
      /\ start_address \in Nat /\ PAGE \in Nat /\ start_address >= 2 * PAGE /\ PAGE > 5
    <2>1. t < e
        BY GroundTypes, Constants, Start DEF Hole
    <2> QED BY <2>1, GroundTypes, Constants, Start
<1>10. /\ g \in HeapT(max) /\ Backed(g) /\ g.mem \in [D -> Words]
       /\ t \in Words /\ HEAP_MAGIC \in Words
    <2>1. g \in HeapT(max) /\ Backed(g)
        BY DEF Ground
    <2>2. t \in Words
        BY <1>1 DEF Words
    <2> QED BY <2>1, <2>2, Constants, GroundTypes
<1>2. Size(g, t) = sz
    <2>1. g.mem[t + 2] = sz /\ t + 2 \in D
        BY <1>1, Constants DEF Hole
    <2> QED BY <1>10, <2>1 DEF Size, Word
<1>3. /\ sz \in Nat /\ over \in Nat /\ sz <= e /\ over <= e /\ new \in Nat /\ size1 \in Nat
      /\ new = size1 + 5 /\ size + 5 <= new /\ new <= sz /\ rest \in Nat /\ after \in Nat
      /\ (rest = 0 \/ rest >= 5) /\ after + rest = e /\ rest <= e /\ after <= e
    <2>4. sz \in Nat /\ sz <= e /\ sz >= size + 5
        BY <1>1
    <2>1. sz \in Nat /\ over \in Nat /\ sz <= e /\ over <= sz /\ sz = over + size + 5
        <3> HIDE DEF sz
        <3> QED BY <2>4
    <2>2. CASE over < 5
        <3>1. new = sz /\ size1 = size + over
            BY <2>2 DEF NewSize
        <3> QED BY <1>1, <2>1, <3>1
    <2>3. CASE ~ (over < 5)
        <3>1. new = size + 5 /\ size1 = size
            BY <2>3 DEF NewSize
        <3> QED BY <1>1, <2>1, <2>3, <3>1
    <2> QED BY <2>2, <2>3
<1>4. RemoveAt(g.index, 1) = << >>
    BY RemoveOnly
<1>5. 0 \in Words /\ 1 \in Words
    BY <1>1 DEF Words
<1>6. h1 \in HeapT(max) /\ h1.mem = g.mem /\ h1.index = << >> /\ h1.end = g.end
      /\ h1.framed = g.framed /\ h1.freed = g.freed /\ h1.stop = g.stop /\ Backed(h1)
    BY <1>10, EmptySeq DEF HeapT, Backed
<1> HIDE DEF sz, over, new, size1, rest, after, h1
<1>7. new \in Words /\ rest \in Words /\ t + 3 + size1 = after - 2 /\ t + 5 <= after
    BY <1>1, <1>3 DEF Words, after
<1>8. /\ h2 \in HeapT(max) /\ Same(h2, h1)
      /\ h2.mem[t] = HEAP_MAGIC /\ h2.mem[t + 1] = 0 /\ h2.mem[t + 2] = new
      /\ \A x \in D : x \notin {t, t + 1, t + 2} => h2.mem[x] = g.mem[x]
    <2>1. t + 2 < e /\ e <= max /\ t \in Nat /\ max \in Nat
        BY <1>1, <1>3, <1>7
    <2>2. DOMAIN h1.mem = D
        BY <1>10, <1>6
    <2>3. h2 = Store(h1, t, <<HEAP_MAGIC, 0, new>>)
        BY DEF StoreHeader
    <2>4. h1.end = e
        BY <1>6
    <2> HIDE DEF h2, D
    <2> QED BY <1>1, <1>5, <1>6, <1>7, <1>10, <2>1, <2>2, <2>3, <2>4, StoreThree
<1> HIDE DEF h2
<1>9. /\ h3 \in HeapT(max) /\ Same(h3, h1)
      /\ h3.mem[after - 2] = HEAP_MAGIC /\ h3.mem[after - 1] = t
      /\ \A x \in D : x \notin {after - 2, after - 1} => h3.mem[x] = h2.mem[x]
    <2>1. Backed(h2) /\ h2.end = e
        BY <1>6, <1>8 DEF Same, Backed
    <2> DEFINE a == after - 2
    <2>2. a \in Nat /\ start_address <= a /\ a + 1 = after - 1 /\ a + 1 < h2.end /\ h2.end <= max
        BY <1>1, <1>3, <1>7, <2>1
    <2>3. DOMAIN h2.mem = D
        BY <1>8 DEF HeapT
    <2>4. h3 = Store(h2, a, <<HEAP_MAGIC, t>>)
        BY <1>7 DEF StoreFooter
    <2> HIDE DEF h3, a, D
    <2>5. /\ h3 \in HeapT(max) /\ Same(h3, h2)
          /\ h3.mem[a] = HEAP_MAGIC /\ h3.mem[a + 1] = t
          /\ \A x \in DOMAIN h2.mem : x \notin {a, a + 1} => h3.mem[x] = h2.mem[x]
        BY <1>1, <1>8, <1>10, <2>1, <2>2, <2>4, StoreTwo
    <2>6. Same(h3, h1)
        BY <1>8, <2>5 DEF Same
    <2> QED BY <2>2, <2>3, <2>5, <2>6 DEF a
<1> HIDE DEF h3
<1> DEFINE r == Carve(size, FALSE, 1, g)
<1>11. r = [heap |-> IF rest > 0 THEN InsertHole(IF e - 2 < h4.end THEN h5 ELSE h4, after) ELSE h3,
            ptr |-> t + 3]
    <2> DEFINE hole == lookup_ordered_array(1, g.index)
               c_over == Wrap(Size(g, hole) - (size + HDR + FTR))
               c_size == IF c_over < HDR + FTR THEN Wrap(size + c_over) ELSE size
               c_new == IF c_over < HDR + FTR THEN Size(g, hole) ELSE size + HDR + FTR
               c_h1 == [g EXCEPT !.index = remove_ordered_array(1, @)]
               c_h2 == StoreHeader(c_h1, hole, 0, c_new)
               c_h3 == StoreFooter(c_h2, hole + HDR + c_size, hole)
               c_rest == Wrap(Size(g, hole) - c_new)
               c_after == hole + HDR + c_size + FTR
               c_footer == Wrap(c_after + c_rest - FTR)
               c_h4 == StoreHeader(c_h3, c_after, 1, c_rest)
               c_h5 == IF c_footer < c_h4.end THEN StoreFooter(c_h4, c_footer, c_after) ELSE c_h4
    <2>1. r = [heap |-> IF c_rest > 0 THEN InsertHole(c_h5, c_after) ELSE c_h3, ptr |-> hole + HDR]
        BY DEF Carve
    <2>2. HDR = 3 /\ FTR = 2
        BY DEF HDR, FTR
    <2>3. hole = t
        BY DEF lookup_ordered_array
    <2>4. c_over = over
        <3>1. sz - (size + 3 + 2) = over /\ over \in Words
            BY <1>1, <1>3 DEF over, Words
        <3> QED BY <1>2, <2>2, <2>3, <3>1, WrapSmall
    <2> HIDE DEF c_over
    <2>5. c_size = size1 /\ c_new = new
        <3>1. size + over \in Words
            BY <1>1, <1>3 DEF Words, over
        <3>2. Wrap(size + over) = size + over
            BY <3>1, WrapSmall
        <3> QED BY <1>2, <2>2, <2>3, <2>4, <3>2 DEF size1, new, over, sz, NewSize
    <2>6. c_h1 = h1
        BY <1>4 DEF h1, remove_ordered_array
    <2> HIDE DEF hole, c_size, c_new, c_h1
    <2>7. c_h2 = h2
        BY <2>3, <2>5, <2>6 DEF h2
    <2> HIDE DEF c_h2
    <2>8. c_h3 = h3
        BY <2>2, <2>3, <2>5, <2>7 DEF h3
    <2> HIDE DEF c_h3
    <2>9. c_rest = rest
        <3>1. Size(g, hole) - c_new = rest
            BY <1>2, <2>3, <2>5 DEF rest
        <3> QED BY <1>7, <3>1, WrapSmall
    <2>10. c_after = after
        BY <1>1, <1>3, <1>7, <2>2, <2>3, <2>5
    <2> HIDE DEF c_rest, c_after
    <2>11. c_footer = e - 2
        <3>1. after + rest - 2 = e - 2 /\ e - 2 \in Words
            BY <1>1, <1>3 DEF Words
        <3> QED BY <2>2, <2>9, <2>10, <3>1, WrapSmall
    <2> HIDE DEF c_footer
    <2>12. c_h4 = h4
        BY <2>8, <2>9, <2>10
    <2> HIDE DEF c_h4, h4
    <2>13. c_h5 = IF e - 2 < h4.end THEN h5 ELSE h4
        BY <2>10, <2>11, <2>12
    <2> HIDE DEF c_h5, h5
    <2> QED BY <2>1, <2>2, <2>3, <2>8, <2>9, <2>10, <2>13
<1> HIDE DEF r
<1>12. h3.index = << >> /\ h3.end = e /\ h3.stop = g.stop /\ Backed(h3) /\ DOMAIN h3.mem = D
    BY <1>6, <1>9 DEF Same, Backed, HeapT
<1>13. /\ \A x \in D : x < t => h3.mem[x] = g.mem[x]
       /\ h3.mem[t] = HEAP_MAGIC /\ h3.mem[t + 1] = 0 /\ h3.mem[t + 2] = new
       /\ h3.mem[after - 2] = HEAP_MAGIC /\ h3.mem[after - 1] = t
    <2>1. \A x \in {t, t + 1, t + 2} : x \in D /\ x \notin {after - 2, after - 1}
        BY <1>1, <1>3, <1>7
    <2>2. \A x \in D : x < t => x \notin {t, t + 1, t + 2} /\ x \notin {after - 2, after - 1}
        BY <1>1, <1>3, <1>7
    <2> QED BY <1>8, <1>9, <2>1, <2>2
<1>14. ASSUME rest = 0
       PROVE  /\ r.ptr = t + 3
              /\ Ground(r.heap, max) /\ r.heap.end = e /\ r.heap.stop = g.stop
              /\ \A x \in D : x < t => r.heap.mem[x] = g.mem[x]
              /\ r.heap.mem[t] = HEAP_MAGIC /\ r.heap.mem[t + 1] = 0 /\ r.heap.mem[t + 2] = new
              /\ r.heap.mem[after - 2] = HEAP_MAGIC /\ r.heap.mem[after - 1] = t
              /\ Hole(r.heap, after)
    <2>1. r.heap = h3 /\ r.ptr = t + 3
        BY <1>11, <1>14
    <2>2. Hole(h3, after)
        BY <1>1, <1>3, <1>12, <1>14 DEF Hole
    <2>3. Ground(h3, max)
        <3>1. start_address - 2 \in D /\ start_address - 2 < t
            BY <1>1
        <3>2. h3.mem[start_address - 2] # HEAP_MAGIC
            BY <1>13, <3>1 DEF Ground
        <3> QED BY <1>9, <1>12, <3>2 DEF Ground
    <2> QED BY <1>12, <1>13, <2>1, <2>2, <2>3
<1>15. ASSUME rest # 0
       PROVE  /\ r.ptr = t + 3
              /\ Ground(r.heap, max) /\ r.heap.end = e /\ r.heap.stop = g.stop
              /\ \A x \in D : x < t => r.heap.mem[x] = g.mem[x]
              /\ r.heap.mem[t] = HEAP_MAGIC /\ r.heap.mem[t + 1] = 0 /\ r.heap.mem[t + 2] = new
              /\ r.heap.mem[after - 2] = HEAP_MAGIC /\ r.heap.mem[after - 1] = t
              /\ Hole(r.heap, after)
    <2>1. /\ after \in Nat /\ after \in Words /\ after + 5 <= e /\ after + 2 < e /\ start_address <= after
          /\ e - 2 \in Nat /\ start_address <= e - 2 /\ (e - 2) + 1 < e /\ (e - 2) + 1 = e - 1
          /\ rest > 0 /\ rest = e - after
        BY <1>1, <1>3, <1>7, <1>15 DEF Words
    <2>2. /\ h4 \in HeapT(max) /\ Same(h4, h3)
          /\ h4.mem[after] = HEAP_MAGIC /\ h4.mem[after + 1] = 1 /\ h4.mem[after + 2] = rest
          /\ \A x \in D : x \notin {after, after + 1, after + 2} => h4.mem[x] = h3.mem[x]
        <3>1. h4 = Store(h3, after, <<HEAP_MAGIC, 1, rest>>)
            BY DEF StoreHeader
        <3>2. after + 2 < h3.end /\ h3.end <= max /\ max \in Nat /\ start_address <= after
            BY <1>1, <1>12, <2>1
        <3>3. h3 \in HeapT(max) /\ Backed(h3) /\ DOMAIN h3.mem = D
            BY <1>9, <1>12
        <3>4. after \in Nat /\ HEAP_MAGIC \in Words /\ 1 \in Words /\ rest \in Words
            BY <1>5, <1>7, <1>10, <2>1
        <3> HIDE DEF h4, D
        <3> QED BY <3>1, <3>2, <3>3, <3>4, StoreThree
    <2>3. Backed(h4) /\ h4.end = e /\ DOMAIN h4.mem = D
        BY <1>12, <2>2 DEF Same, Backed, HeapT
    <2>4. h5 = Store(h4, e - 2, <<HEAP_MAGIC, after>>)
        BY DEF StoreFooter
    <2> DEFINE f == e - 2
    <2>5. f \in Nat /\ start_address <= f /\ f + 1 < e /\ f + 1 = e - 1
        BY <2>1
    <2> HIDE DEF h4, h5
    <2>6. /\ h5 \in HeapT(max) /\ Same(h5, h4)
          /\ \A x \in D : x \notin {f, f + 1} => h5.mem[x] = h4.mem[x]
        <3> HIDE DEF f, D
        <3>1. h5 = Store(h4, f, <<HEAP_MAGIC, after>>)
            BY <2>4 DEF f
        <3> QED BY <1>1, <1>10, <2>1, <2>2, <2>3, <2>5, <3>1, StoreTwo
    <2>7. /\ \A x \in D : x < after => h5.mem[x] = h3.mem[x]
          /\ h5.mem[after] = HEAP_MAGIC /\ h5.mem[after + 1] = 1 /\ h5.mem[after + 2] = rest
        <3>1. \A x \in {after, after + 1, after + 2} : x \in D /\ x \notin {f, f + 1}
            BY <1>1, <2>1
        <3>2. \A x \in D : x < after => x \notin {after, after + 1, after + 2} /\ x \notin {f, f + 1}
            BY <1>1, <2>1
        <3> QED BY <2>2, <2>6, <3>1, <3>2
    <2> DEFINE h6 == InsertHole(h5, after)
    <2>8. h6 = [h5 EXCEPT !.index = <<after>>]
        <3>1. h5.index = << >>
            BY <1>12, <2>2, <2>6 DEF Same
        <3> QED BY <3>1, InsertFirst DEF InsertHole
    <2>9. r.heap = h6 /\ r.ptr = t + 3
        <3>1. e - 2 < h4.end
            BY <2>1, <2>3
        <3> QED BY <1>11, <2>1, <3>1
    <2>10. /\ h6 \in HeapT(max) /\ h6.mem = h5.mem /\ h6.index = <<after>> /\ h6.end = e
           /\ h6.stop = g.stop /\ Backed(h6)
        <3>1. <<after>> \in Seq(Words)
            BY <2>1
        <3>2. h5.end = e /\ h5.stop = g.stop /\ Backed(h5)
            BY <1>12, <2>2, <2>3, <2>6 DEF Same, Backed
        <3> QED BY <2>6, <2>8, <3>1, <3>2 DEF HeapT, Backed
    <2> HIDE DEF h6
    <2>11. Hole(h6, after)
        BY <2>1, <2>7, <2>10, Constants DEF Hole
    <2>12. /\ \A x \in D : x < t => h6.mem[x] = g.mem[x]
           /\ h6.mem[t] = HEAP_MAGIC /\ h6.mem[t + 1] = 0 /\ h6.mem[t + 2] = new
           /\ h6.mem[after - 2] = HEAP_MAGIC /\ h6.mem[after - 1] = t
        <3>1. \A x \in {t, t + 1, t + 2, after - 2, after - 1} : x \in D /\ x < after
            BY <1>1, <1>3, <1>7
        <3>2. \A x \in D : x < t => x < after
            BY <1>1, <1>3, <1>7
        <3> QED BY <1>13, <2>7, <2>10, <3>1, <3>2
    <2>13. Ground(h6, max)
        <3>1. start_address - 2 \in D /\ start_address - 2 < t
            BY <1>1
        <3>2. h6.mem[start_address - 2] # HEAP_MAGIC
            BY <2>12, <3>1 DEF Ground
        <3> QED BY <2>10, <3>2 DEF Ground
    <2> QED BY <2>9, <2>10, <2>11, <2>12, <2>13
<1>16. /\ r.ptr = t + 3
       /\ Ground(r.heap, max) /\ r.heap.end = e /\ r.heap.stop = g.stop
       /\ \A x \in D : x < t => r.heap.mem[x] = g.mem[x]
       /\ r.heap.mem[t] = HEAP_MAGIC /\ r.heap.mem[t + 1] = 0 /\ r.heap.mem[t + 2] = new
       /\ r.heap.mem[after - 2] = HEAP_MAGIC /\ r.heap.mem[after - 1] = t
       /\ Hole(r.heap, after)
    BY <1>14, <1>15
<1>17. new \in Nat /\ size + 5 <= new
    BY <1>3
<1>18. Carved(r, g, t, new, max)
    <2>2. \A x \in D : x < t => r.heap.mem[x] = g.mem[x]
        BY <1>16
    <2>3. r.ptr = t + 3 /\ Ground(r.heap, max) /\ r.heap.end = g.end /\ r.heap.stop = g.stop
        BY <1>16
    <2>4. /\ r.heap.mem[t] = HEAP_MAGIC /\ r.heap.mem[t + 1] = 0 /\ r.heap.mem[t + 2] = new
          /\ r.heap.mem[(t + new) - 2] = HEAP_MAGIC /\ r.heap.mem[(t + new) - 1] = t
          /\ Hole(r.heap, t + new)
        <3>1. /\ r.heap.mem[t] = HEAP_MAGIC /\ r.heap.mem[t + 1] = 0 /\ r.heap.mem[t + 2] = new
              /\ r.heap.mem[after - 2] = HEAP_MAGIC /\ r.heap.mem[after - 1] = t
              /\ Hole(r.heap, after)
            BY <1>16
        <3> QED BY <3>1 DEF after
    <2> QED BY <2>2, <2>3, <2>4 DEF Carved
<1> QED BY <1>17, <1>18 DEF r, new
-----------------------------------------------------------------------------
(* Stacks of blocks *)

LEMMA SmallWord ==
    ASSUME NEW x \in Nat, NEW max \in Nat, x <= max, max < WRAP
    PROVE  x \in Words
BY Constants DEF Words

BlockT == [ptr : Nat, size : Nat, align : {FALSE}, clear : Nat]

(* The words of a block that the heap relies on. *)
Marks(m, b) == {HeadOf(b), HeadOf(b) + 1, HeadOf(b) + 2, EndOf(m, b) - 2, EndOf(m, b) - 1}

LEMMA StackTypes ==
    ASSUME NEW max, NEW g, Ground(g, max), NEW lv \in Seq(BlockT), Stack(g.mem, lv, g.end)
    PROVE  /\ Len(lv) \in Nat /\ g.end \in Nat
           /\ \A i \in 1 .. Len(lv) :
                /\ lv[i] \in BlockT /\ HeadOf(lv[i]) \in Nat /\ EndOf(g.mem, lv[i]) \in Nat
                /\ start_address <= HeadOf(lv[i]) /\ EndOf(g.mem, lv[i]) <= g.end
                /\ lv[i].ptr = HeadOf(lv[i]) + 3
                /\ HeadOf(lv[i]) + lv[i].size + 5 <= EndOf(g.mem, lv[i])
                /\ EndOf(g.mem, lv[i]) <= Top(g.mem, lv)
           /\ Top(g.mem, lv) \in Nat /\ start_address <= Top(g.mem, lv) /\ Top(g.mem, lv) <= g.end
<1>1. Len(lv) \in Nat /\ g.end \in Nat /\ start_address \in Nat /\ start_address < g.end
    BY GroundTypes, LenProperties, Start
<1>2. ASSUME NEW i \in 1 .. Len(lv)
      PROVE  /\ lv[i] \in BlockT /\ HeadOf(lv[i]) \in Nat /\ EndOf(g.mem, lv[i]) \in Nat
             /\ start_address <= HeadOf(lv[i]) /\ EndOf(g.mem, lv[i]) <= g.end
             /\ lv[i].ptr = HeadOf(lv[i]) + 3
             /\ HeadOf(lv[i]) + lv[i].size + 5 <= EndOf(g.mem, lv[i])
    <2>1. lv[i] \in BlockT
        BY ElementOfSeq
    <2>2. lv[i].ptr \in Nat /\ lv[i].size \in Nat
        BY <2>1 DEF BlockT
    <2>3. Block(g.mem, lv[i]) /\ HeadOf(lv[i]) + 5 <= g.end /\ EndOf(g.mem, lv[i]) <= g.end
        BY DEF Stack
    <2> DEFINE p == HeadOf(lv[i])
               z == g.mem[p + 2]
    <2>4. p = lv[i].ptr - 3 /\ start_address <= p /\ lv[i].size + 3 + 2 <= z
        BY <2>3 DEF Block, HeadOf, HDR, FTR
    <2>5. p \in Nat /\ lv[i].ptr = p + 3
        BY <1>1, <2>2, <2>4
    <2>6. EndOf(g.mem, lv[i]) = p + z
        BY DEF EndOf
    <2>7. p + 5 <= g.end
        BY <2>3
    <2> HIDE DEF p
    <2>8. z \in Nat
        <3>1. p + 2 \in Int /\ start_address - PAGE <= p + 2 /\ p + 2 < max
            <4>1. max \in Nat /\ g.end <= max /\ PAGE \in Nat
                BY GroundTypes, Constants
            <4>2. p \in Nat /\ start_address <= p
                BY <2>4, <2>5
            <4> QED BY <1>1, <2>7, <4>1, <4>2
        <3> QED BY <3>1, GroundTypes, Constants DEF Words
    <2> HIDE DEF z
    <2>9. p + z \in Nat /\ p + lv[i].size + 5 <= p + z
        BY <2>2, <2>4, <2>5, <2>8, SMTT(30)
    <2>10. EndOf(g.mem, lv[i]) \in Nat /\ p + lv[i].size + 5 <= EndOf(g.mem, lv[i])
        BY <2>6, <2>9
    <2>11. EndOf(g.mem, lv[i]) <= g.end
        BY <2>3
    <2>12. p \in Nat /\ start_address <= p /\ lv[i].ptr = p + 3
        BY <2>4, <2>5
    <2> QED BY <2>1, <2>10, <2>11, <2>12 DEF p
<1>3. /\ Top(g.mem, lv) \in Nat /\ start_address <= Top(g.mem, lv) /\ Top(g.mem, lv) <= g.end
      /\ \A i \in 1 .. Len(lv) : EndOf(g.mem, lv[i]) <= Top(g.mem, lv)
    <2>1. CASE Len(lv) = 0
        BY <1>1, <2>1 DEF Top
    <2>2. CASE Len(lv) # 0
        <3> DEFINE n == Len(lv)
                   t == EndOf(g.mem, lv[n])
        <3>1. n \in 1 .. Len(lv) /\ Top(g.mem, lv) = t
            BY <1>1, <2>2 DEF Top
        <3>2. /\ HeadOf(lv[n]) \in Nat /\ t \in Nat /\ start_address <= HeadOf(lv[n]) /\ t <= g.end
              /\ HeadOf(lv[n]) + lv[n].size + 5 <= t /\ lv[n].size \in Nat
            BY <1>2, <3>1 DEF BlockT
        <3> HIDE DEF t
        <3>3. start_address <= t /\ HeadOf(lv[n]) <= t
            BY <1>1, <3>2
        <3>4. ASSUME NEW i \in 1 .. Len(lv) PROVE EndOf(g.mem, lv[i]) <= t
            <4>1. CASE i = n
                BY <3>2, <4>1 DEF t
            <4>2. CASE i < n
                <5>1. EndOf(g.mem, lv[i]) <= HeadOf(lv[n]) /\ EndOf(g.mem, lv[i]) \in Nat
                    BY <1>2, <3>1, <4>2 DEF Stack
                <5> QED BY <3>2, <3>3, <5>1
            <4> QED BY <1>1, <4>1, <4>2
        <3> QED BY <3>1, <3>2, <3>3, <3>4
    <2> QED BY <2>1, <2>2
<1> QED BY <1>1, <1>2, <1>3

(* Who leaves the marks alone leaves the stack as it is. *)
KeepsMarks(k, m, lv) == \A i \in 1 .. Len(lv) : \A x \in Marks(m, lv[i]) : k[x] = m[x]

LEMMA StackKeeps ==
    ASSUME NEW m, NEW k, NEW lv, NEW end, Stack(m, lv, end), KeepsMarks(k, m, lv)
    PROVE  /\ \A i \in 1 .. Len(lv) : Block(k, lv[i]) /\ EndOf(k, lv[i]) = EndOf(m, lv[i])
           /\ Stack(k, lv, end)
<1>1. ASSUME NEW i \in 1 .. Len(lv)
      PROVE  Block(k, lv[i]) /\ EndOf(k, lv[i]) = EndOf(m, lv[i])
    <2>1. \A x \in Marks(m, lv[i]) : k[x] = m[x]
        BY DEF KeepsMarks
    <2>2. EndOf(k, lv[i]) = EndOf(m, lv[i]) /\ k[HeadOf(lv[i]) + 2] = m[HeadOf(lv[i]) + 2]
        BY <2>1 DEF EndOf, Marks
    <2>3. /\ k[HeadOf(lv[i])] = m[HeadOf(lv[i])] /\ k[HeadOf(lv[i]) + 1] = m[HeadOf(lv[i]) + 1]
          /\ k[EndOf(k, lv[i]) - 2] = m[EndOf(m, lv[i]) - 2]
          /\ k[EndOf(k, lv[i]) - 1] = m[EndOf(m, lv[i]) - 1]
        BY <2>1, <2>2 DEF Marks
    <2>4. Block(m, lv[i])
        BY DEF Stack
    <2> QED BY <2>2, <2>3, <2>4 DEF Block
<1>2. \A i \in 1 .. Len(lv) : HeadOf(lv[i]) + 5 <= end /\ EndOf(k, lv[i]) <= end
    BY <1>1 DEF Stack
<1>3. \A i, j \in 1 .. Len(lv) : i < j => EndOf(k, lv[i]) <= HeadOf(lv[j])
    BY <1>1 DEF Stack
<1>4. ASSUME NEW i \in 1 .. Len(lv)
      PROVE  HeadOf(lv[i]) = IF i = 1 THEN start_address ELSE EndOf(k, lv[i - 1])
    <2>1. HeadOf(lv[i]) = IF i = 1 THEN start_address ELSE EndOf(m, lv[i - 1])
        BY DEF Stack
    <2>2. i # 1 => i - 1 \in 1 .. Len(lv)
        OBVIOUS
    <2> QED BY <1>1, <2>1, <2>2
<1> QED BY <1>1, <1>2, <1>3, <1>4 DEF Stack

LEMMA RemoveLast ==
    ASSUME NEW S, NEW s \in Seq(S), Len(s) > 0
    PROVE  /\ RemoveAt(s, Len(s)) \in Seq(S) /\ Len(RemoveAt(s, Len(s))) = Len(s) - 1
           /\ \A k \in 1 .. Len(s) - 1 : RemoveAt(s, Len(s))[k] = s[k]
<1> DEFINE n == Len(s)
           l == SubSeq(s, 1, n - 1)
           r == SubSeq(s, n + 1, n)
<1>1. n \in Nat /\ n > 0
    OBVIOUS
<1>6. ASSUME NEW p \in 1 .. Len(s)
      PROVE  /\ SubSeq(s, 1, p - 1) \in Seq(S) /\ Len(SubSeq(s, 1, p - 1)) = p - 1
             /\ \A k \in 1 .. p - 1 : SubSeq(s, 1, p - 1)[k] = s[k]
    OBVIOUS
<1>2. l \in Seq(S) /\ Len(l) = n - 1 /\ \A k \in 1 .. n - 1 : l[k] = s[k]
    <2>1. n \in 1 .. Len(s)
        BY <1>1
    <2> HIDE DEF n
    <2> QED BY <1>6, <2>1, Zenon
<1>5. r \in Seq(S) /\ Len(r) = n - n
    OBVIOUS
<1> HIDE DEF l, r
<1>3. r = << >>
    BY <1>1, <1>5, EmptySeq
<1>4. l \o r = l
    BY <1>2, <1>3
<1> QED BY <1>2, <1>4 DEF RemoveAt, l, r

(* A block is put on top. *)
LEMMA StackPush ==
    ASSUME NEW max, NEW g, Ground(g, max), NEW lv \in Seq(BlockT), Stack(g.mem, lv, g.end),
           NEW b \in BlockT, HeadOf(b) = Top(g.mem, lv), Block(g.mem, b),
           HeadOf(b) + 5 <= g.end, EndOf(g.mem, b) <= g.end
    PROVE  /\ Append(lv, b) \in Seq(BlockT) /\ Len(Append(lv, b)) = Len(lv) + 1
           /\ Stack(g.mem, Append(lv, b), g.end)
           /\ Top(g.mem, Append(lv, b)) = EndOf(g.mem, b)
<1> DEFINE n == Len(lv)
           w == Append(lv, b)
<1>1. n \in Nat
    BY LenProperties
<1>2. w \in Seq(BlockT) /\ Len(w) = n + 1 /\ (\A i \in 1 .. n : w[i] = lv[i]) /\ w[n + 1] = b
    BY AppendProperties
<1>3. \A i \in 1 .. n : EndOf(g.mem, lv[i]) <= HeadOf(b)
    BY StackTypes
<1> HIDE DEF w, n
<1>4. \A i \in 1 .. n + 1 : i \in 1 .. n \/ i = n + 1
    BY <1>1
<1>5. \A i \in 1 .. Len(w) : Block(g.mem, w[i]) /\ HeadOf(w[i]) + 5 <= g.end /\ EndOf(g.mem, w[i]) <= g.end
    <2>1. \A i \in 1 .. n : Block(g.mem, lv[i]) /\ HeadOf(lv[i]) + 5 <= g.end /\ EndOf(g.mem, lv[i]) <= g.end
        BY DEF Stack, n
    <2> QED BY <1>2, <1>4, <2>1
<1>6. ASSUME NEW i \in 1 .. Len(w), NEW j \in 1 .. Len(w), i < j
      PROVE  EndOf(g.mem, w[i]) <= HeadOf(w[j])
    <2>1. i \in 1 .. n
        BY <1>1, <1>2, <1>6
    <2>2. CASE j \in 1 .. n
        <3>1. EndOf(g.mem, lv[i]) <= HeadOf(lv[j])
            BY <1>6, <2>1, <2>2 DEF Stack, n
        <3> QED BY <1>2, <2>1, <2>2, <3>1
    <2>3. CASE j = n + 1
        BY <1>2, <1>3, <2>1, <2>3
    <2> QED BY <1>2, <1>4, <2>2, <2>3
<1>7. ASSUME NEW i \in 1 .. Len(w)
      PROVE  HeadOf(w[i]) = IF i = 1 THEN start_address ELSE EndOf(g.mem, w[i - 1])
    <2>1. CASE i \in 1 .. n
        <3>1. HeadOf(lv[i]) = IF i = 1 THEN start_address ELSE EndOf(g.mem, lv[i - 1])
            BY <2>1 DEF Stack, n
        <3>2. i # 1 => i - 1 \in 1 .. n
            BY <1>1, <2>1
        <3> QED BY <1>2, <2>1, <3>1, <3>2
    <2>2. CASE i = n + 1
        <3>1. w[i] = b /\ (i # 1 => n \in 1 .. n /\ i - 1 = n) /\ (i = 1 <=> n = 0)
            BY <1>1, <1>2, <2>2
        <3>2. HeadOf(b) = IF n = 0 THEN start_address ELSE EndOf(g.mem, lv[n])
            BY DEF Top, n
        <3> QED BY <1>2, <3>1, <3>2
    <2> QED BY <1>2, <1>4, <2>1, <2>2
<1>8. Top(g.mem, w) = EndOf(g.mem, b)
    <2>1. Len(w) # 0 /\ w[Len(w)] = b
        BY <1>1, <1>2
    <2> QED BY <2>1 DEF Top
<1>9. Stack(g.mem, w, g.end)
    BY <1>5, <1>6, <1>7 DEF Stack
<1> QED BY <1>2, <1>8, <1>9 DEF w, n

(* The top block is taken off. *)
LEMMA StackPop ==
    ASSUME NEW max, NEW g, Ground(g, max), NEW lv \in Seq(BlockT), Stack(g.mem, lv, g.end),
           Len(lv) > 0, NEW end \in Nat, HeadOf(lv[Len(lv)]) <= end
    PROVE  /\ RemoveAt(lv, Len(lv)) \in Seq(BlockT)
           /\ Stack(g.mem, RemoveAt(lv, Len(lv)), end)
           /\ Top(g.mem, RemoveAt(lv, Len(lv))) = HeadOf(lv[Len(lv)])
<1> DEFINE n == Len(lv)
           w == RemoveAt(lv, n)
           t == HeadOf(lv[n])
<1>1. n \in Nat /\ n > 0 /\ n \in 1 .. Len(lv)
    BY LenProperties
<1>2. w \in Seq(BlockT) /\ Len(w) = n - 1 /\ \A i \in 1 .. n - 1 : w[i] = lv[i]
    BY RemoveLast
<1>3. t \in Nat
    BY <1>1, StackTypes
<1> HIDE DEF w, n, t
<1>9. \A i \in 1 .. n - 1 : i \in 1 .. Len(lv) /\ i < n
    BY <1>1
<1>4. ASSUME NEW i \in 1 .. Len(w)
      PROVE  Block(g.mem, w[i]) /\ HeadOf(w[i]) + 5 <= end /\ EndOf(g.mem, w[i]) <= end
    <2>1. i \in 1 .. Len(lv) /\ i < n /\ w[i] = lv[i]
        BY <1>2, <1>9
    <2>2. Block(g.mem, lv[i]) /\ EndOf(g.mem, lv[i]) <= t
        BY <1>1, <2>1 DEF Stack, t, n
    <2>3. /\ HeadOf(lv[i]) \in Nat /\ EndOf(g.mem, lv[i]) \in Nat /\ lv[i].size \in Nat
          /\ HeadOf(lv[i]) + lv[i].size + 5 <= EndOf(g.mem, lv[i])
        BY <2>1, StackTypes DEF BlockT
    <2>4. t <= end
        BY DEF t, n
    <2>5. HeadOf(lv[i]) + 5 <= end /\ EndOf(g.mem, lv[i]) <= end
        BY <1>3, <2>2, <2>3, <2>4
    <2> QED BY <2>1, <2>2, <2>5
<1>5. ASSUME NEW i \in 1 .. Len(w), NEW j \in 1 .. Len(w), i < j
      PROVE  EndOf(g.mem, w[i]) <= HeadOf(w[j])
    BY <1>2, <1>5, <1>9 DEF Stack
<1>6. ASSUME NEW i \in 1 .. Len(w)
      PROVE  HeadOf(w[i]) = IF i = 1 THEN start_address ELSE EndOf(g.mem, w[i - 1])
    <2>1. i \in 1 .. Len(lv) /\ w[i] = lv[i] /\ (i # 1 => w[i - 1] = lv[i - 1])
        BY <1>1, <1>2, <1>9
    <2>2. HeadOf(lv[i]) = IF i = 1 THEN start_address ELSE EndOf(g.mem, lv[i - 1])
        BY <2>1 DEF Stack
    <2> QED BY <2>1, <2>2
<1>7. Top(g.mem, w) = t
    <2>1. t = IF n = 1 THEN start_address ELSE EndOf(g.mem, lv[n - 1])
        BY <1>1 DEF Stack, t
    <2>2. (Len(w) = 0 <=> n = 1) /\ (n # 1 => w[Len(w)] = lv[n - 1])
        BY <1>1, <1>2
    <2> QED BY <2>1, <2>2 DEF Top
<1>8. Stack(g.mem, w, end)
    BY <1>4, <1>5, <1>6 DEF Stack
<1> QED BY <1>2, <1>7, <1>8 DEF w, t, n
-----------------------------------------------------------------------------
(* Growing *)

(* b is g with more room behind, and the frames for it. *)
Expanded(b, g, n, max) ==
    /\ Ground(b, max) /\ b.mem = g.mem /\ b.index = g.index /\ b.stop = g.stop
    /\ b.end > g.end + n

LEMMA ExpandMeans ==
    ASSUME NEW max, NEW g, Ground(g, max), g.stop = "no", NEW n \in Nat
    PROVE  \/ expand(length(g) + n, max, g) = [g EXCEPT !.stop = "oom"]
           \/ Expanded(expand(length(g) + n, max, g), g, n, max)
<1> DEFINE e == g.end
           len == e - start_address
           target == RoundUp(len + n)
           top == start_address + target
           fresh == {start_address + i : i \in {j \in len .. target - 1 : (j - len) % PAGE = 0}}
           new == {a \div PAGE : a \in fresh}
           b == expand(length(g) + n, max, g)
<1>1. /\ e \in Nat /\ start_address < e /\ e <= max /\ max \in Nat /\ max < WRAP
      /\ start_address \in Nat /\ start_address % PAGE = 0 /\ e % PAGE = 0 /\ PAGE \in Nat /\ PAGE > 5
    <2>1. e % PAGE = 0
        BY DEF Ground
    <2> QED BY <2>1, GroundTypes, Constants, Start
<1> HIDE DEF e
<1>2. len \in Nat /\ len > 0 /\ len % PAGE = 0
    <2>1. len \in Nat /\ len > 0 /\ e >= start_address
        BY <1>1
    <2> QED BY <1>1, <2>1, SumAligned
<1>3. len >= PAGE
    <2> HIDE DEF len
    <2> DEFINE q == len \div PAGE
    <2>1. q \in Nat /\ len = PAGE * q + 0
        BY <1>2, DivMod
    <2> HIDE DEF q
    <2>2. q >= 1
        BY <1>1, <1>2, <2>1
    <2>3. PAGE * q >= PAGE * 1
        BY <1>1, <2>1, <2>2
    <2> QED BY <1>1, <2>1, <2>3
<1>4. target \in Nat /\ target % PAGE = 0 /\ target > len + n
    <2> HIDE DEF len
    <2>1. len + n \in Nat /\ len + n >= PAGE
        BY <1>1, <1>2, <1>3
    <2> QED BY <2>1, RoundUpMeans
<1>5. length(g) + n = len + n
    BY DEF length, e
<1>6. b = IF top > max THEN Stop(g, "oom")
          ELSE [g EXCEPT !.framed = @ \cup new, !.freed = @ \ new, !.end = top]
    <2>1. length(g) = len
        BY DEF length, e
    <2> HIDE DEF len
    <2> QED BY <2>1 DEF expand
<1>7. CASE top > max
    BY <1>6, <1>7 DEF Stop
<1>8. CASE ~ (top > max)
    <2>1. /\ b = [g EXCEPT !.framed = @ \cup new, !.freed = @ \ new, !.end = top]
        BY <1>6, <1>8
    <2>2. top \in Nat /\ top % PAGE = 0 /\ top <= max /\ top > e + n /\ start_address < top /\ top \in Words
        <3> HIDE DEF target
        <3>1. top \in Nat /\ top <= max /\ top > e + n /\ start_address < top
            BY <1>1, <1>2, <1>4, <1>8
        <3>2. top % PAGE = 0
            BY <1>1, <1>4, SumAligned
        <3> HIDE DEF top
        <3>3. top \in Words
            BY <1>1, <3>1, Constants DEF Words
        <3> QED BY <3>1, <3>2, <3>3
    <2>3. new \subseteq Int
        <3>1. \A a \in fresh : a \in Int
            BY <1>1, <1>2, <1>4
        <3> QED BY <1>1, <3>1
    <2>4. ASSUME NEW x \in start_address .. top - 1
          PROVE  x \div PAGE \in g.framed \cup new
        <3> HIDE DEF target
        <3>1. CASE x < e
            <4>1. x \in start_address .. g.end - 1
                BY <1>1, <2>2, <3>1 DEF e
            <4> QED BY <4>1 DEF Ground, Backed
        <3>2. CASE ~ (x < e)
            <4> DEFINE q == x \div PAGE
                       a == PAGE * q
                       j == a - start_address
            <4>1. q \in Nat /\ x % PAGE \in 0 .. PAGE - 1 /\ x = PAGE * q + (x % PAGE) /\ x \in Nat
                BY <1>1, <2>2, DivMod
            <4>2. a \in Nat /\ a <= x /\ x < a + PAGE /\ a % PAGE = 0
                <5> HIDE DEF q
                <5> QED BY <1>1, <4>1, ModMultiple
            <4>3. e <= a
                <5>1. e \div PAGE <= q
                    BY <1>1, <3>2, <4>1, DivMonotonic
                <5>2. e \div PAGE \in Nat /\ e = PAGE * (e \div PAGE) + 0
                    BY <1>1, DivMod
                <5> HIDE DEF q
                <5>3. PAGE * (e \div PAGE) <= PAGE * q
                    BY <1>1, <4>1, <5>1, <5>2, TimesMonotonic
                <5> QED BY <1>1, <5>2, <5>3
            <4>4. a \div PAGE = q
                <5> HIDE DEF q
                <5>1. PAGE * q <= a /\ a < PAGE * q + PAGE
                    BY <1>1, <4>1
                <5> QED BY <4>1, <4>2, <5>1, DivUnique
            <4> HIDE DEF q, a
            <4>5. j \in len .. target - 1 /\ start_address + j = a
                BY <1>1, <1>4, <2>2, <4>2, <4>3
            <4>6. (j - len) % PAGE = 0
                <5>1. j - len = a - e
                    BY <1>1, <4>2
                <5>2. (a - e) % PAGE = 0
                    BY <1>1, <4>2, <4>3, SumAligned
                <5> QED BY <5>1, <5>2
            <4> HIDE DEF j, len
            <4>7. a \in fresh
                BY <4>5, <4>6
            <4>8. a \div PAGE \in new
                BY <4>7
            <4>9. q \in new
                BY <4>4, <4>8
            <4> QED BY <4>9 DEF q
        <3> QED BY <3>1, <3>2
    <2>5. b.mem = g.mem /\ b.index = g.index /\ b.stop = g.stop /\ b.end = top /\ b.framed = g.framed \cup new
        <3> HIDE DEF b, new, top
        <3>1. g = [mem |-> g.mem, index |-> g.index, end |-> g.end, framed |-> g.framed, freed |-> g.freed, stop |-> g.stop]
            BY DEF Ground, HeapT
        <3> QED BY <2>1, <3>1
    <2>6. b \in HeapT(max)
        <3> HIDE DEF b, new, top
        <3>1. g \in HeapT(max)
            BY DEF Ground
        <3> QED BY <2>1, <2>2, <2>3, <3>1 DEF HeapT
    <2> HIDE DEF b, new, top
    <2>7. Backed(b)
        BY <2>4, <2>5 DEF Backed
    <2>8. Ground(b, max)
        <3>1. b.mem[start_address - 2] # HEAP_MAGIC
            BY <2>5 DEF Ground
        <3> QED BY <1>1, <2>2, <2>5, <2>6, <2>7, <3>1 DEF Ground
    <2>9. b.end > g.end + n
        BY <2>2, <2>5 DEF e
    <2>10. Expanded(b, g, n, max)
        BY <2>5, <2>8, <2>9 DEF Expanded
    <2> QED BY <2>10 DEF b
<1> QED BY <1>7, <1>8

(* k is g after growing: the hole at t reaches to the new end. *)
Grown(k, g, t, n, max) ==
    /\ Ground(k, max) /\ k.stop = "no" /\ k.end > g.end + n
    /\ \A x \in start_address - PAGE .. max - 1 : x < t => k.mem[x] = g.mem[x]
    /\ Hole(k, t)

LEMMA GrowMeans ==
    ASSUME NEW max, NEW g, Ground(g, max), g.stop = "no", NEW t \in Nat, start_address <= t,
           Hole(g, t), NEW n \in Nat, n >= 5
    PROVE  Grow(n, max, g) = [g EXCEPT !.stop = "oom"] \/ Grown(Grow(n, max, g), g, t, n, max)
<1> DEFINE D == start_address - PAGE .. max - 1
           b == expand(length(g) + n, max, g)
           gain == b.end - g.end
           first == g.index = << >>
           at == IF first THEN g.end ELSE Max(ToSet(g.index))
           size == IF first THEN gain ELSE Wrap(Size(g, Max(ToSet(g.index))) + gain)
           headed == IF first THEN StoreHeader(b, at, 1, size) ELSE SetSize(b, at, size)
           footed == StoreFooter(headed, Wrap(at + size - FTR), at)
           k == Grow(n, max, g)
<1>1. k = IF b.stop # "no" THEN b ELSE IF first THEN InsertHole(footed, at) ELSE footed
    BY DEF Grow
<1>2. CASE b = [g EXCEPT !.stop = "oom"]
    <2>1. b.stop = "oom"
        <3> HIDE DEF b
        <3> QED BY <1>2 DEF Ground, HeapT
    <2> QED BY <1>1, <1>2, <2>1
<1>3. CASE Expanded(b, g, n, max)
    <2> HIDE DEF b
    <2> DEFINE e == g.end
               u == b.end
    <2>1. /\ Ground(b, max) /\ b.mem = g.mem /\ b.index = g.index /\ b.stop = "no" /\ u > e + n
        BY <1>3 DEF Expanded
    <2>2. /\ e \in Nat /\ u \in Nat /\ u <= max /\ max \in Nat /\ max < WRAP /\ u \in Words
          /\ start_address \in Nat /\ start_address >= 2 * PAGE /\ PAGE \in Nat /\ PAGE > 5
          /\ HEAP_MAGIC \in Words /\ 1 \in Words /\ HDR = 3 /\ FTR = 2
        <3>1. e \in Nat /\ u \in Nat /\ u <= max /\ max \in Nat /\ max < WRAP
            BY <2>1, GroundTypes
        <3> HIDE DEF e, u
        <3>2. u \in Words /\ 1 \in Words
            <4>1. 1 <= max
                BY <2>1, <3>1
            <4> QED BY <3>1, <4>1, SmallWord
        <3> QED BY <3>1, <3>2, Constants, Start
    <2>12. b \in HeapT(max) /\ Backed(b) /\ DOMAIN b.mem = D
        BY <2>1, GroundTypes DEF Ground
    <2>3. t <= e /\ t \in Words /\ t + 5 <= u /\ t + 2 < u
        <3>1. t <= e
            BY <2>2 DEF Hole
        <3> HIDE DEF e, u
        <3>2. t + 5 <= u /\ t + 2 < u /\ t <= max
            BY <2>1, <2>2, <3>1
        <3> QED BY <2>2, <3>1, <3>2, SmallWord
    <2>4. at = t
        <3>1. CASE first
            BY <3>1 DEF Hole
        <3>2. CASE ~ first
            <4>1. g.index = <<t>>
                BY <3>2 DEF Hole
            <4>2. ToSet(<<t>>) = {t}
                BY DEF ToSet
            <4>3. Max({t}) = t
                BY DEF Max
            <4> QED BY <3>2, <4>1, <4>2, <4>3
        <3> QED BY <3>1, <3>2
    <2>5. size = u - t /\ u - t \in Words
        <3>1. u - t \in Words /\ u - t \in Nat
            <4> HIDE DEF e, u
            <4>1. u - t \in Nat /\ u - t <= max
                BY <2>2, <2>3
            <4> QED BY <2>2, <4>1, SmallWord
        <3>2. CASE first
            BY <2>4, <3>1, <3>2 DEF e, u
        <3>3. CASE ~ first
            <4>1. g.index = <<t>> /\ g.mem[t + 2] = e - t
                BY <3>3 DEF Hole
            <4>2. Size(g, t) = e - t
                <5>1. t + 2 \in D
                    <6> HIDE DEF e, u
                    <6> QED BY <2>2, <2>3
                <5>2. DOMAIN g.mem = D
                    BY GroundTypes
                <5> QED BY <4>1, <5>1, <5>2 DEF Size, Word
            <4>3. Max(ToSet(g.index)) = t
                BY <2>4, <3>3
            <4>4. (e - t) + (u - e) = u - t
                <5> HIDE DEF e, u
                <5> QED BY <2>2, <2>3
            <4> QED BY <3>1, <3>3, <4>2, <4>3, <4>4, WrapSmall
        <3> QED BY <3>2, <3>3
    <2> HIDE DEF at, size
    <2>6. /\ headed \in HeapT(max) /\ Same(headed, b)
          /\ headed.mem[t] = HEAP_MAGIC /\ headed.mem[t + 1] = 1 /\ headed.mem[t + 2] = u - t
          /\ \A x \in D : x \notin {t, t + 1, t + 2} => headed.mem[x] = g.mem[x]
        <3>1. CASE first
            <4>1. headed = Store(b, t, <<HEAP_MAGIC, 1, u - t>>)
                BY <2>4, <2>5, <3>1 DEF StoreHeader
            <4> HIDE DEF headed, D, u
            <4>2. t + 2 < b.end /\ b.end <= max
                BY <2>2, <2>3 DEF u
            <4>3. /\ headed \in HeapT(max) /\ Same(headed, b)
                  /\ headed.mem[t] = HEAP_MAGIC /\ headed.mem[t + 1] = 1 /\ headed.mem[t + 2] = u - t
                  /\ \A x \in DOMAIN b.mem : x \notin {t, t + 1, t + 2} => headed.mem[x] = b.mem[x]
                BY <2>2, <2>5, <2>12, <4>1, <4>2, StoreThree
            <4> QED BY <2>1, <2>12, <4>3
        <3>2. CASE ~ first
            <4> DEFINE a == t + 2
            <4>1. headed = Store(b, a, <<u - t>>)
                BY <2>4, <2>5, <3>2 DEF SetSize
            <4>2. a < b.end /\ b.end <= max /\ a \in Nat /\ start_address <= a
                <5> HIDE DEF e
                <5>1. t + 2 < b.end
                    BY <2>3
                <5> QED BY <2>2, <5>1
            <4>4. g.mem[t] = HEAP_MAGIC /\ g.mem[t + 1] = 1
                BY <3>2 DEF Hole
            <4>5. t \in D /\ t + 1 \in D /\ t # t + 2 /\ t + 1 # t + 2
                <5> HIDE DEF e, u
                <5> QED BY <2>2, <2>3
            <4> HIDE DEF headed, D, a
            <4>3. /\ headed \in HeapT(max) /\ Same(headed, b) /\ headed.mem[a] = u - t
                  /\ \A x \in DOMAIN b.mem : x # a => headed.mem[x] = b.mem[x]
                <5> HIDE DEF u
                <5> QED BY <2>2, <2>5, <2>12, <4>1, <4>2, StoreOne
            <4>6. headed.mem[t] = HEAP_MAGIC /\ headed.mem[t + 1] = 1
                BY <2>1, <2>12, <4>3, <4>4, <4>5 DEF a
            <4> QED BY <2>1, <2>12, <4>3, <4>6 DEF a
        <3> QED BY <3>1, <3>2
    <2> HIDE DEF headed
    <2> DEFINE f == u - 2
    <2>7. /\ f \in Nat /\ start_address <= f /\ f + 1 < u /\ t + 2 < f /\ f \in Words
        <3> HIDE DEF e, u
        <3>1. f \in Nat /\ start_address <= f /\ f + 1 < u /\ t + 2 < f /\ f <= max
            BY <2>1, <2>2, <2>3
        <3> HIDE DEF f
        <3> QED BY <2>2, <3>1, SmallWord
    <2>8. footed = Store(headed, f, <<HEAP_MAGIC, t>>)
        <3>1. t + (u - t) - 2 = f
            <4> HIDE DEF e, u
            <4> QED BY <2>2, <2>3
        <3>2. Wrap(at + size - FTR) = f
            BY <2>2, <2>4, <2>5, <2>7, <3>1, WrapSmall
        <3> QED BY <2>4, <3>2 DEF StoreFooter
    <2>9. /\ footed \in HeapT(max) /\ Same(footed, b)
          /\ \A x \in D : x \notin {f, f + 1} => footed.mem[x] = headed.mem[x]
        <3>1. headed.end = u /\ Backed(headed) /\ DOMAIN headed.mem = D
            BY <2>6, <2>12 DEF Same, Backed, HeapT
        <3> HIDE DEF footed, f, D, e
        <3>2. f + 1 < headed.end /\ headed.end <= max
            BY <2>2, <2>7, <3>1
        <3> HIDE DEF u
        <3>3. /\ footed \in HeapT(max) /\ Same(footed, headed)
              /\ \A x \in DOMAIN headed.mem : x \notin {f, f + 1} => footed.mem[x] = headed.mem[x]
            BY <2>2, <2>3, <2>6, <2>7, <2>8, <3>1, <3>2, StoreTwo
        <3> QED BY <2>6, <3>1, <3>3 DEF Same
    <2> HIDE DEF footed
    <2>10. /\ \A x \in D : x < t => footed.mem[x] = g.mem[x]
           /\ footed.mem[t] = HEAP_MAGIC /\ footed.mem[t + 1] = 1 /\ footed.mem[t + 2] = u - t
        <3>1. \A x \in {t, t + 1, t + 2} : x \in D /\ x \notin {f, f + 1}
            <4> HIDE DEF e, u, f
            <4> QED BY <2>2, <2>3, <2>7
        <3>2. \A x \in D : x < t => x \notin {t, t + 1, t + 2} /\ x \notin {f, f + 1}
            <4> HIDE DEF e, u, f
            <4> QED BY <2>2, <2>3, <2>7
        <3> QED BY <2>6, <2>9, <3>1, <3>2
    <2>11. /\ k \in HeapT(max) /\ k.mem = footed.mem /\ k.index = <<t>> /\ k.end = u
           /\ k.stop = "no" /\ k.framed = b.framed
        <3>1. CASE first
            <4>1. footed.index = << >>
                BY <2>1, <2>9, <3>1 DEF Same
            <4>2. k = [footed EXCEPT !.index = <<t>>]
                BY <1>1, <2>1, <2>4, <3>1, <4>1, InsertFirst DEF InsertHole
            <4>3. <<t>> \in Seq(Words)
                BY <2>3
            <4> HIDE DEF k
            <4> QED BY <2>1, <2>9, <4>2, <4>3 DEF HeapT, Same
        <3>2. CASE ~ first
            <4>1. k = footed
                BY <1>1, <2>1, <3>2
            <4>2. g.index = <<t>>
                BY <3>2 DEF Hole
            <4> HIDE DEF k
            <4> QED BY <2>1, <2>9, <4>1, <4>2 DEF Same
        <3> QED BY <3>1, <3>2
    <2> HIDE DEF k
    <2>13. Backed(k) /\ k.end % PAGE = 0 /\ start_address < k.end /\ k.end <= max
        BY <2>1, <2>11 DEF Ground, Backed
    <2>14. k.mem[start_address - 2] # HEAP_MAGIC
        <3>1. start_address - 2 \in D /\ start_address - 2 < t
            <4> HIDE DEF e, u
            <4> QED BY <2>2, <2>3
        <3> QED BY <2>10, <2>11, <3>1 DEF Ground
    <2>15. Ground(k, max)
        BY <2>2, <2>11, <2>13, <2>14 DEF Ground
    <2>16. Hole(k, t)
        BY <2>2, <2>3, <2>10, <2>11 DEF Hole
    <2>17. k.end > g.end + n
        BY <2>1, <2>11
    <2>18. Grown(k, g, t, n, max)
        BY <2>10, <2>11, <2>15, <2>16, <2>17 DEF Grown
    <2> QED BY <2>18 DEF k
<1> QED BY <1>2, <1>3, ExpandMeans
-----------------------------------------------------------------------------
(* Shrinking *)

MIN_END == start_address + HEAP_MIN_SIZE

(* c is g cut off at the least size of the heap. *)
Contracted(c, g, max) ==
    /\ Ground(c, max) /\ c.end = MIN_END /\ c.index = g.index /\ c.stop = g.stop
    /\ \A x \in start_address - PAGE .. max - 1 : x < MIN_END => c.mem[x] = g.mem[x]

LEMMA MinEnd ==
    ASSUME 2 * PAGE <= HEAP_MIN_SIZE
    PROVE  /\ MIN_END \in Nat /\ MIN_END % PAGE = 0 /\ start_address + 2 * PAGE <= MIN_END
           /\ HEAP_MIN_SIZE \in Nat /\ HEAP_MIN_SIZE % PAGE = 0
<1>1. /\ HEAP_MIN_SIZE \in Nat /\ HEAP_MIN_SIZE % PAGE = 0
      /\ start_address \in Nat /\ start_address % PAGE = 0 /\ PAGE \in Nat
    BY MinAssumption, Constants, Start
<1>2. MIN_END % PAGE = 0
    BY <1>1, SumAligned DEF MIN_END
<1> QED BY <1>1, <1>2 DEF MIN_END

LEMMA ContractMeans ==
    ASSUME NEW max, NEW g, Ground(g, max), 2 * PAGE <= HEAP_MIN_SIZE, MIN_END <= g.end,
           NEW len \in Nat, len < HEAP_MIN_SIZE, NEW junk \in Junk
    PROVE  Contracted(contract(len, junk, g), g, max)
<1> DEFINE D == start_address - PAGE .. max - 1
           e == g.end
           lost == PagesLost(HEAP_MIN_SIZE, g)
           m == [a \in D |-> IF a \div PAGE \in lost /\ ~ junk.old THEN junk.word ELSE g.mem[a]]
           c == contract(len, junk, g)
<1>1. /\ MIN_END \in Nat /\ MIN_END % PAGE = 0 /\ start_address + 2 * PAGE <= MIN_END
      /\ HEAP_MIN_SIZE \in Nat /\ start_address \in Nat /\ PAGE \in Nat /\ PAGE > 5
      /\ start_address >= 2 * PAGE /\ MIN_END = start_address + HEAP_MIN_SIZE
    BY MinEnd, Constants, Start DEF MIN_END
<1>2. /\ e \in Nat /\ e <= max /\ max \in Nat /\ max < WRAP /\ g.mem \in [D -> Words]
      /\ g \in HeapT(max) /\ Backed(g)
    BY GroundTypes DEF Ground
<1>3. ContractedLength(len) = HEAP_MIN_SIZE
    BY <1>1 DEF ContractedLength
<1>4. c = [g EXCEPT !.framed = @ \ lost, !.freed = @ \cup (lost \cap g.framed),
                    !.end = MIN_END, !.mem = m]
    <2>1. DOMAIN g.mem = D
        BY <1>2
    <2> HIDE DEF lost
    <2> QED BY <1>3, <2>1 DEF contract, MIN_END, lost
<1>5. ASSUME NEW x \in Nat, x \div PAGE \in lost PROVE MIN_END <= x
    <2>1. PICK j \in HEAP_MIN_SIZE + 1 .. length(g) - PAGE : x \div PAGE = (start_address + j) \div PAGE
        BY <1>5 DEF PagesLost
    <2>2. length(g) = e - start_address
        BY DEF length
    <2>3. start_address + j \in Nat /\ MIN_END <= start_address + j
        <3>1. j \in Nat /\ HEAP_MIN_SIZE + 1 <= j
            BY <1>1, <1>2, <2>2
        <3> QED BY <1>1, <3>1
    <2>4. MIN_END \div PAGE <= (start_address + j) \div PAGE
        BY <1>1, <2>3, DivMonotonic
    <2> SUFFICES ASSUME x < MIN_END PROVE FALSE
        BY <1>1
    <2>5. x \div PAGE < MIN_END \div PAGE
        BY <1>1, DivBelow
    <2>6. x \div PAGE \in Nat /\ MIN_END \div PAGE \in Nat
        BY <1>1, DivMod
    <2> QED BY <2>1, <2>4, <2>5, <2>6
<1> HIDE DEF lost, e
<1>6. junk.word \in Words
    <2>1. junk.word \in Garbage
        <3>1. (CHOOSE w \in Garbage : TRUE) \in Garbage
            BY GarbageAssumption
        <3> QED BY <3>1 DEF Junk
    <2> QED BY <2>1, Constants
<1>7. m \in [D -> Words]
    BY <1>2, <1>6
<1>8. ASSUME NEW x \in D, x < MIN_END PROVE m[x] = g.mem[x]
    <2>1. x \in Nat
        BY <1>1, <1>2
    <2>2. x \div PAGE \notin lost
        <3>1. ~ (MIN_END <= x)
            BY <1>1, <1>8, <2>1
        <3> QED BY <1>5, <2>1, <3>1, Zenon
    <2> QED BY <2>2
<1> HIDE DEF m
<1>9. MIN_END \in Words /\ MIN_END <= max
    <2>1. MIN_END <= max
        BY <1>1, <1>2 DEF e
    <2> QED BY <1>1, <1>2, <2>1, SmallWord
<1>10. c \in HeapT(max)
    <2> HIDE DEF c
    <2> QED BY <1>2, <1>4, <1>7, <1>9 DEF HeapT
<1>11. /\ c.mem = m /\ c.index = g.index /\ c.end = MIN_END /\ c.framed = g.framed \ lost /\ c.stop = g.stop
    <2> HIDE DEF c
    <2> QED BY <1>2, <1>4 DEF HeapT
<1> HIDE DEF c
<1>12. ASSUME NEW x \in start_address .. c.end - 1 PROVE x \div PAGE \in c.framed
    <2>1. x \in Nat /\ x < MIN_END /\ x \in start_address .. g.end - 1
        <3>1. x \in Int /\ start_address <= x /\ x < MIN_END
            BY <1>1, <1>11
        <3>2. MIN_END <= e /\ e = g.end
            BY DEF e
        <3> QED BY <1>1, <1>2, <3>1, <3>2
    <2>2. x \div PAGE \in g.framed
        BY <1>2, <2>1 DEF Backed
    <2>3. x \div PAGE \notin lost
        <3>1. ~ (MIN_END <= x)
            BY <1>1, <2>1
        <3> QED BY <1>5, <2>1, <3>1, Zenon
    <2> QED BY <1>11, <2>2, <2>3
<1>13. c.mem[start_address - 2] # HEAP_MAGIC
    <2>1. start_address - 2 \in D /\ start_address - 2 < MIN_END
        BY <1>1, <1>2, <1>9
    <2> QED BY <1>8, <1>11, <2>1 DEF Ground
<1>14. Ground(c, max)
    <2>1. Backed(c)
        BY <1>12 DEF Backed
    <2>2. start_address < MIN_END
        BY <1>1
    <2> QED BY <1>1, <1>2, <1>9, <1>10, <1>11, <1>13, <2>1, <2>2 DEF Ground
<1>15. Contracted(c, g, max)
    BY <1>8, <1>11, <1>14 DEF Contracted
<1> QED BY <1>15 DEF c
-----------------------------------------------------------------------------
(* Giving back the top block *)

(* k is g with the block at p and the hole behind it made one hole. *)
Freed(k, g, p, max) ==
    /\ Ground(k, max) /\ k.stop = "no" /\ k.end = MIN_END
    /\ \A x \in start_address - PAGE .. max - 1 : x < p => k.mem[x] = g.mem[x]
    /\ Hole(k, p)

(* The hole at own ends the heap: it is cut. *)
LEMMA ShrinkMeans ==
    ASSUME NEW max, NEW g, Ground(g, max), g.stop = "no", g.index = << >>,
           2 * PAGE <= HEAP_MIN_SIZE, MIN_END <= g.end,
           NEW own \in Nat, start_address <= own, own + 5 <= MIN_END,
           g.mem[own] = HEAP_MAGIC, g.mem[own + 1] = 1, g.mem[own + 2] = g.end - own,
           NEW t, NEW junk \in Junk
    PROVE  /\ Shrink(g, own, t, junk).stop = "no"
           /\ Freed(InsertHole(Shrink(g, own, t, junk), own), g, own, max)
<1> DEFINE D == start_address - PAGE .. max - 1
           e == g.end
           M == MIN_END
           small == contract(own - start_address, junk, g)
           cut == g.end - small.end
           size == Wrap(Size(g, own) - cut)
           s1 == SetSize(small, own, size)
           s2 == StoreFooter(s1, Wrap(own + size - FTR), own)
           s == Shrink(g, own, t, junk)
           k == InsertHole(s, own)
<1>1. /\ M \in Nat /\ start_address + 2 * PAGE <= M /\ HEAP_MIN_SIZE \in Nat
      /\ M = start_address + HEAP_MIN_SIZE /\ FTR = 2 /\ HDR = 3
      /\ start_address \in Nat /\ PAGE \in Nat /\ PAGE > 5 /\ start_address >= 2 * PAGE
    BY MinEnd, Constants, Start DEF MIN_END
<1>2. e \in Nat /\ max \in Nat /\ e <= max /\ max < WRAP /\ DOMAIN g.mem = D /\ M <= e
    BY GroundTypes
<1> HIDE DEF e, M
<1>3. Contracted(small, g, max)
    <2>1. own - start_address \in Nat /\ own - start_address < HEAP_MIN_SIZE
        <3>1. own + 5 <= M
            BY DEF M
        <3> QED BY <1>1, <3>1
    <2> QED BY <2>1, ContractMeans
<1> HIDE DEF small
<1>4. /\ Ground(small, max) /\ small.end = M /\ small.index = << >> /\ small.stop = "no"
      /\ \A x \in D : x < M => small.mem[x] = g.mem[x]
    BY <1>3 DEF Contracted, M
<1>5. /\ own \in D /\ own + 1 \in D /\ own + 2 \in D /\ own + 2 < M /\ own <= max
      /\ M - own \in Nat /\ M - own <= max /\ M - own > 0 /\ M <= max
      /\ M - 2 \in Nat /\ start_address <= M - 2 /\ (M - 2) + 1 < M /\ M - 2 <= max /\ own + 2 < M - 2
    <2>1. own + 5 <= M
        BY DEF M
    <2> QED BY <1>1, <1>2, <2>1
<1>6. size = M - own /\ M - own \in Words
    <2>1. Size(g, own) = e - own
        BY <1>2, <1>5 DEF Size, Word, e
    <2>2. (e - own) - (e - M) = M - own
        BY <1>1, <1>2
    <2>3. M - own \in Words
        BY <1>2, <1>5, SmallWord
    <2>4. cut = e - M
        BY <1>4 DEF e
    <2> QED BY <2>1, <2>2, <2>3, <2>4, WrapSmall
<1>7. Wrap(own + size - FTR) = M - 2
    <2>1. (own + (M - own)) - 2 = M - 2 /\ M - 2 \in Words
        BY <1>1, <1>2, <1>5, SmallWord
    <2>2. own + size - FTR = M - 2
        BY <1>1, <1>5, <1>6, <2>1
    <2> QED BY <2>1, <2>2, WrapSmall
<1> HIDE DEF size
<1>8. s = s2
    <2>1. Wrap(own - start_address) = own - start_address /\ ~ (own - start_address >= e - start_address)
        <3>1. own - start_address \in Nat /\ own - start_address <= max /\ own < e
            BY <1>1, <1>2, <1>5
        <3>2. own - start_address \in Words
            BY <1>2, <3>1, SmallWord
        <3> QED BY <1>1, <1>2, <3>1, <3>2, WrapSmall
    <2>2. ~ (Wrap(own - start_address) >= length(g))
        BY <2>1 DEF length, e
    <2>3. size > 0
        BY <1>5, <1>6
    <2> QED BY <2>2, <2>3 DEF Shrink, size, small
<1>9. /\ s1 \in HeapT(max) /\ Same(s1, small) /\ s1.mem[own + 2] = M - own
      /\ \A x \in D : x # own + 2 => s1.mem[x] = small.mem[x]
    <2> DEFINE a == own + 2
    <2>1. s1 = Store(small, a, <<M - own>>)
        BY <1>6 DEF SetSize
    <2>2. a \in Nat /\ start_address <= a /\ a < small.end /\ small.end <= max
        <3>1. own + 2 < M /\ M <= max
            BY <1>5
        <3> QED BY <1>1, <1>4, <3>1
    <2>3. small \in HeapT(max) /\ Backed(small) /\ DOMAIN small.mem = D
        BY <1>4, GroundTypes DEF Ground
    <2> HIDE DEF s1, a, D
    <2>4. /\ s1 \in HeapT(max) /\ Same(s1, small) /\ s1.mem[a] = M - own
          /\ \A x \in DOMAIN small.mem : x # a => s1.mem[x] = small.mem[x]
        BY <1>2, <1>6, <2>1, <2>2, <2>3, StoreOne
    <2> QED BY <2>3, <2>4 DEF a
<1> HIDE DEF s1
<1> DEFINE f == M - 2
<1>10. /\ s2 \in HeapT(max) /\ Same(s2, small)
       /\ \A x \in D : x \notin {f, f + 1} => s2.mem[x] = s1.mem[x]
    <2>1. s2 = Store(s1, f, <<HEAP_MAGIC, own>>)
        BY <1>7 DEF StoreFooter
    <2>2. s1.end = M /\ Backed(s1) /\ DOMAIN s1.mem = D
        BY <1>4, <1>9 DEF Same, Ground, Backed, HeapT
    <2>3. f \in Nat /\ start_address <= f /\ f + 1 < s1.end /\ s1.end <= max
        BY <1>5, <2>2
    <2>4. own \in Words /\ HEAP_MAGIC \in Words
        BY <1>2, <1>5, SmallWord, Constants
    <2> HIDE DEF s2, f, D
    <2>5. /\ s2 \in HeapT(max) /\ Same(s2, s1)
          /\ \A x \in DOMAIN s1.mem : x \notin {f, f + 1} => s2.mem[x] = s1.mem[x]
        BY <1>2, <1>9, <2>1, <2>2, <2>3, <2>4, StoreTwo
    <2> QED BY <1>9, <2>2, <2>5 DEF Same
<1> HIDE DEF s2
<1>11. /\ \A x \in D : x < own => s2.mem[x] = g.mem[x]
       /\ s2.mem[own] = HEAP_MAGIC /\ s2.mem[own + 1] = 1 /\ s2.mem[own + 2] = M - own
    <2>1. \A x \in {own, own + 1, own + 2} : x \in D /\ x \notin {f, f + 1} /\ x < M
        BY <1>1, <1>5
    <2>2. \A x \in D : x < own => x \notin {f, f + 1} /\ x # own + 2 /\ x < M
        BY <1>1, <1>2, <1>5
    <2>3. own # own + 2 /\ own + 1 # own + 2
        OBVIOUS
    <2> QED BY <1>4, <1>9, <1>10, <2>1, <2>2, <2>3
<1>12. k = [s2 EXCEPT !.index = <<own>>]
    <2>1. s2.index = << >>
        BY <1>4, <1>10 DEF Same
    <2> QED BY <1>8, <2>1, InsertFirst DEF InsertHole
<1>13. /\ k \in HeapT(max) /\ k.mem = s2.mem /\ k.index = <<own>> /\ k.end = M
       /\ k.stop = "no" /\ k.framed = small.framed /\ s.stop = "no"
    <2>1. <<own>> \in Seq(Words)
        BY <1>2, <1>5, SmallWord
    <2> HIDE DEF k, s
    <2> QED BY <1>4, <1>8, <1>10, <1>12, <2>1 DEF HeapT, Same
<1> HIDE DEF k
<1>14. Ground(k, max)
    <2>1. Backed(k) /\ k.end % PAGE = 0 /\ start_address < k.end /\ k.end <= max
        BY <1>4, <1>13 DEF Ground, Backed
    <2>2. start_address - 2 \in D /\ start_address - 2 < own
        BY <1>1, <1>2, <1>5
    <2>3. k.mem[start_address - 2] # HEAP_MAGIC
        BY <1>11, <1>13, <2>2 DEF Ground
    <2> QED BY <1>2, <1>13, <2>1, <2>3 DEF Ground
<1>15. Hole(k, own)
    <2>1. own + HDR + FTR <= M
        BY <1>1 DEF M
    <2> QED BY <1>11, <1>13, <2>1 DEF Hole
<1>16. Freed(k, g, own, max)
    BY <1>11, <1>13, <1>14, <1>15 DEF Freed, M
<1> QED BY <1>13, <1>16 DEF k

(* In front of the top block there is the start of the heap or a block:     *)
(* free finds no hole there, and what it reads is there.                    *)
LEMMA NothingLeft ==
    ASSUME NEW max, NEW g, Ground(g, max), NEW lv \in Seq(BlockT), Stack(g.mem, lv, g.end),
           Len(lv) > 0, NEW own \in Nat, own = HeadOf(lv[Len(lv)]),
           NEW k, k.end = g.end, Backed(k), DOMAIN k.mem = DOMAIN g.mem,
           \A x \in start_address - PAGE .. max - 1 : x < own => k.mem[x] = g.mem[x]
    PROVE  LeftHole(k, own) = {} /\ Readable(k, own)
<1> DEFINE n == Len(lv)
           D == start_address - PAGE .. max - 1
<1>1. n \in 1 .. Len(lv) /\ n \in Nat
    BY LenProperties
<1>2. /\ start_address \in Nat /\ start_address >= 2 * PAGE /\ PAGE \in Nat /\ PAGE > 5
      /\ max \in Nat /\ DOMAIN g.mem = D /\ g.end <= max /\ g.end \in Nat /\ start_address <= own
      /\ own + 5 <= g.end /\ FTR = 2
    <2>1. own + 5 <= g.end /\ start_address <= own
        <3>1. HeadOf(lv[n]) + 5 <= g.end /\ start_address <= HeadOf(lv[n])
            BY <1>1 DEF Stack, Block
        <3> QED BY <3>1
    <2> QED BY <2>1, GroundTypes, Constants, Start
<1>3. own - 2 \in D /\ own - 1 \in D /\ own - 2 < own /\ own - 1 < own /\ (own - 2) + 1 = own - 1
    BY <1>2
<1>4. Magic(k, own - FTR) = g.mem[own - 2] /\ Header(k, own - FTR) = g.mem[own - 1]
    <2>1. k.mem[own - 2] = g.mem[own - 2] /\ k.mem[own - 1] = g.mem[own - 1]
        BY <1>3
    <2> QED BY <1>2, <1>3, <2>1 DEF Magic, Header, Word
<1>5. own = IF n = 1 THEN start_address ELSE EndOf(g.mem, lv[n - 1])
    BY <1>1 DEF Stack
<1>6. CASE n = 1
    <2>1. g.mem[own - 2] # HEAP_MAGIC
        BY <1>5, <1>6 DEF Ground
    <2> QED BY <1>4, <2>1 DEF LeftHole, Readable
<1>7. CASE n # 1
    <2> DEFINE q == HeadOf(lv[n - 1])
    <2>1. n - 1 \in 1 .. Len(lv)
        <3>1. n \in Nat /\ n > 0 /\ n # 1 /\ Len(lv) = n
            BY <1>1, <1>7
        <3> HIDE DEF n
        <3>2. n - 1 \in 1 .. n
            BY <3>1
        <3> QED BY <3>1, <3>2
    <2>2. /\ own = EndOf(g.mem, lv[n - 1]) /\ g.mem[own - 1] = q /\ g.mem[q + 1] = 0
        BY <1>5, <1>7, <2>1 DEF Stack, Block
    <2>3. q \in Nat /\ start_address <= q /\ q + 5 <= own
        <3>1. /\ lv[n - 1].size \in Nat /\ q \in Nat /\ start_address <= q
              /\ q + lv[n - 1].size + 5 <= EndOf(g.mem, lv[n - 1])
            BY <2>1, StackTypes DEF BlockT
        <3>2. q + lv[n - 1].size + 5 <= own
            BY <2>2, <3>1
        <3> HIDE DEF q
        <3> QED BY <3>1, <3>2
    <2> HIDE DEF q
    <2>4. q + 1 \in D /\ q + 1 < own /\ q + 1 \in start_address .. k.end - 1
        BY <1>2, <2>3
    <2>5. IsHole(k, q) = 0
        <3>1. k.mem[q + 1] = 0
            BY <2>2, <2>4
        <3> QED BY <1>2, <2>4, <3>1 DEF IsHole, Word
    <2>6. Present(k, q + 1)
        BY <2>4 DEF Backed, Present
    <2>7. Header(k, own - FTR) = q
        BY <1>4, <2>2
    <2> QED BY <2>5, <2>6, <2>7 DEF LeftHole, Readable
<1> QED BY <1>6, <1>7

(* The places free looks at, in the heap from s to e: the block at own, the *)
(* hole at t behind it.                                                     *)
LEMMA FreeNumbers ==
    ASSUME NEW P \in Nat, P > 5, NEW s \in Nat, s >= 2 * P, NEW own \in Nat, s <= own,
           NEW t \in Nat, own + 5 <= t, NEW M \in Nat, t + 5 <= M,
           NEW e \in Nat, M <= e, NEW max \in Nat, e <= max
    PROVE  /\ t + 2 < e /\ own + 5 <= M /\ t <= max /\ t - own \in Nat /\ t - own <= max
           /\ t - 2 \in Nat /\ t - 2 <= max /\ (t - 2) + 2 = t /\ e - t \in Nat /\ e - own \in Nat
           /\ e - own <= max /\ e - 2 \in Nat /\ e - 2 <= max /\ (e - 2) + 2 = e
           /\ (t - own) + (e - t) = e - own /\ (own + (t - own)) - 2 = t - 2
           /\ (t + (e - t)) - 2 = e - 2
           /\ own + 1 < e /\ own + 2 < e /\ s <= own + 1 /\ s <= own + 2 /\ t \in s .. e - 1
           /\ own \in s - P .. max - 1 /\ own + 1 \in s - P .. max - 1 /\ own + 2 \in s - P .. max - 1
           /\ t - 2 \in s - P .. max - 1 /\ t \in s - P .. max - 1
           /\ t + 1 \in s - P .. max - 1 /\ t + 2 \in s - P .. max - 1
           /\ s - 2 \in s - P .. max - 1 /\ s - 2 < own
OBVIOUS

LEMMA FreeMeans ==
    ASSUME NEW max, NEW g, Ground(g, max), g.stop = "no", NEW lv \in Seq(BlockT),
           Stack(g.mem, lv, g.end), Len(lv) > 0, NEW t \in Nat, t = Top(g.mem, lv), Hole(g, t),
           2 * PAGE <= HEAP_MIN_SIZE, MIN_END <= g.end, t + 5 <= MIN_END, NEW junk \in Junk
    PROVE  Freed(free(lv[Len(lv)].ptr, junk, g), g, HeadOf(lv[Len(lv)]), max)
<1> DEFINE n == Len(lv)
           D == start_address - PAGE .. max - 1
           e == g.end
           own == lv[n].ptr - HDR
           footer0 == Wrap(own + Size(g, own) - FTR)
           h1 == Store(g, own + 1, <<1>>)
           left == LeftHole(h1, own)
           header == IF left = {} THEN own ELSE Header(h1, own - FTR)
           h2 == IF left = {} THEN h1
                 ELSE LET repointed == Store(h1, footer0 + 1, <<header>>)
                      IN  SetSize(repointed, header,
                                  Wrap(Size(repointed, header) + Size(g, own)))
           test_header == footer0 + FTR
           right == IsHoleHeader(h2, test_header)
           h3 == IF right THEN UnifyRight(h2, header, test_header) ELSE h2
           footer == IF right THEN Wrap(test_header + Size(h3, test_header) - FTR) ELSE footer0
           h4 == IF footer + FTR = h3.end THEN Shrink(h3, header, test_header, junk) ELSE h3
           h5 == IF left = {} THEN InsertHole(h4, header) ELSE h4
           r == free(lv[n].ptr, junk, g)
<1>1. r = IF Magic(g, own) # HEAP_MAGIC \/ Magic(g, footer0) # HEAP_MAGIC
          THEN Stop(g, IF Present(g, footer0) THEN "assert" ELSE "fault")
          ELSE IF ~ Readable(h1, own) \/ ~ Present(h2, test_header) THEN Stop(h1, "fault")
          ELSE IF h3.stop # "no" THEN h3
          ELSE IF h4.stop # "no" THEN h4 ELSE h5
    BY DEF free
<1>2. /\ MIN_END \in Nat /\ start_address + 2 * PAGE <= MIN_END /\ FTR = 2 /\ HDR = 3
      /\ start_address \in Nat /\ PAGE \in Nat /\ PAGE > 5 /\ start_address >= 2 * PAGE
      /\ e \in Nat /\ max \in Nat /\ e <= max /\ max < WRAP /\ MIN_END <= e /\ t + 5 <= MIN_END
    BY MinEnd, Constants, Start, GroundTypes
<1>30. DOMAIN g.mem = D /\ g.mem \in [D -> Words]
    BY GroundTypes
<1>3. n \in 1 .. Len(lv) /\ own = HeadOf(lv[n])
    BY LenProperties DEF HeadOf
<1>40. /\ own \in Nat /\ start_address <= own /\ own + 5 <= t
       /\ g.mem[own] = HEAP_MAGIC /\ g.mem[own + 2] = t - own
       /\ g.mem[t - 2] = HEAP_MAGIC
    <2> DEFINE z == g.mem[own + 2]
    <2>1. /\ own \in Nat /\ start_address <= own /\ lv[n].size \in Nat
          /\ own + lv[n].size + 5 <= EndOf(g.mem, lv[n])
        BY <1>3, StackTypes DEF BlockT
    <2>2. EndOf(g.mem, lv[n]) = t /\ EndOf(g.mem, lv[n]) = own + z
        BY <1>3 DEF Top, EndOf
    <2>3. Block(g.mem, lv[n])
        BY <1>3 DEF Stack
    <2>4. g.mem[own] = HEAP_MAGIC /\ g.mem[t - 2] = HEAP_MAGIC
        BY <1>3, <2>2, <2>3 DEF Block
    <2>5. own + 2 \in D
        <3> HIDE DEF own
        <3>1. own + 5 <= t
            BY <2>1, <2>2
        <3>2. t <= max
            BY <1>2
        <3> QED BY <1>2, <2>1, <3>1, <3>2
    <2>6. z \in Nat
        BY <1>2, <1>30, <2>5, Constants, SMTT(30) DEF Words
    <2> HIDE DEF own, z
    <2>7. z = t - own /\ own + 5 <= t
        BY <2>1, <2>2, <2>6
    <2> QED BY <2>1, <2>4, <2>7 DEF z
<1> HIDE DEF own, e
<1>4. own \in Nat /\ start_address <= own /\ own + 5 <= t
    BY <1>40
<1>41. g.mem[own] = HEAP_MAGIC /\ g.mem[own + 2] = t - own /\ g.mem[t - 2] = HEAP_MAGIC
    BY <1>40
<1>5. /\ g.index = <<t>> /\ g.mem[t] = HEAP_MAGIC /\ g.mem[t + 1] = 1 /\ g.mem[t + 2] = e - t
    <2>1. t # g.end
        BY <1>2 DEF e
    <2> QED BY <2>1 DEF Hole, e
<1>6. /\ t + 2 < e /\ own + 5 <= MIN_END /\ t <= max /\ t - own \in Nat /\ t - own <= max
      /\ t - 2 \in Nat /\ t - 2 <= max /\ (t - 2) + 2 = t /\ e - t \in Nat /\ e - own \in Nat
      /\ e - own <= max /\ e - 2 \in Nat /\ e - 2 <= max /\ (e - 2) + 2 = e
      /\ own + 1 < e /\ own + 2 < e /\ start_address <= own + 1 /\ start_address <= own + 2
    BY <1>2, <1>4, FreeNumbers
<1>60. /\ (t - own) + (e - t) = e - own /\ (own + (t - own)) - 2 = t - 2
       /\ (t + (e - t)) - 2 = e - 2
    BY <1>2, <1>4, FreeNumbers
<1>61. /\ own \in D /\ own + 1 \in D /\ own + 2 \in D
       /\ t - 2 \in D /\ t \in D /\ t + 1 \in D /\ t + 2 \in D
       /\ start_address - 2 \in D /\ start_address - 2 < own /\ t \in start_address .. e - 1
    BY <1>2, <1>4, FreeNumbers
<1>62. own # own + 1 /\ own # own + 2 /\ own + 1 # own + 2 /\ t # own + 1 /\ t + 1 # own + 1
       /\ t + 2 # own + 1 /\ t + 2 # own + 2
    BY <1>4
<1>63. \A x \in D : x < own => x # own + 1 /\ x # own + 2
    BY <1>2, <1>4
<1> HIDE DEF D
<1>7. footer0 = t - 2 /\ test_header = t
    <2>1. Size(g, own) = t - own
        BY <1>30, <1>41, <1>61 DEF Size, Word
    <2>2. own + Size(g, own) - FTR = t - 2
        BY <1>2, <1>4, <1>60, <2>1
    <2>3. t - 2 \in Words
        BY <1>2, <1>6, SmallWord
    <2>4. footer0 = t - 2
        BY <2>2, <2>3, WrapSmall
    <2> QED BY <1>2, <1>6, <2>4
<1> HIDE DEF footer0
<1>8. Magic(g, own) = HEAP_MAGIC /\ Magic(g, footer0) = HEAP_MAGIC
    BY <1>30, <1>41, <1>61, <1>7 DEF Magic, Word
<1>9. /\ h1 \in HeapT(max) /\ Same(h1, g) /\ h1.mem[own + 1] = 1
      /\ \A x \in D : x # own + 1 => h1.mem[x] = g.mem[x]
    <2> DEFINE a == own + 1
    <2>1. a \in Nat /\ start_address <= a /\ a < g.end /\ g.end <= max
        <3>1. own + 1 < e /\ start_address <= own + 1 /\ own + 1 \in Nat
            BY <1>4, <1>6
        <3> QED BY <1>2, <3>1 DEF e
    <2>2. 1 \in Words /\ g \in HeapT(max) /\ Backed(g)
        <3>1. 1 <= max
            BY <1>2, <1>4, <1>6
        <3> QED BY <1>2, <3>1, SmallWord DEF Ground
    <2>3. /\ h1 \in HeapT(max) /\ Same(h1, g) /\ h1.mem[a] = 1
          /\ \A x \in DOMAIN g.mem : x # a => h1.mem[x] = g.mem[x]
        <3>1. h1 = Store(g, a, <<1>>)
            OBVIOUS
        <3> HIDE DEF h1, a
        <3> QED BY <1>2, <2>1, <2>2, <3>1, StoreOne
    <2> QED BY <1>30, <2>3
<1> HIDE DEF h1
<1>10. Backed(h1) /\ h1.end = e /\ DOMAIN h1.mem = D /\ h1.index = <<t>> /\ h1.stop = "no"
    BY <1>5, <1>9 DEF Same, Ground, Backed, HeapT, e, D
<1>11. left = {} /\ Readable(h1, own)
    <2>1. \A x \in D : x < own => h1.mem[x] = g.mem[x]
        BY <1>9, <1>63
    <2>2. h1.end = g.end /\ DOMAIN h1.mem = DOMAIN g.mem
        BY <1>10, <1>30 DEF e
    <2>3. own \in Nat /\ own = HeadOf(lv[Len(lv)])
        BY <1>3, <1>4
    <2> QED BY <1>10, <2>1, <2>2, <2>3, NothingLeft DEF D, left
<1> HIDE DEF left
<1>12. header = own /\ h2 = h1
    BY <1>11
<1> HIDE DEF header, h2
<1>13. Present(h2, test_header) /\ right
    <2>1. t \in start_address .. h1.end - 1
        BY <1>10, <1>61
    <2>2. h1.mem[t] = HEAP_MAGIC /\ h1.mem[t + 1] = 1
        BY <1>5, <1>9, <1>61, <1>62
    <2>3. Word(h1, t) = HEAP_MAGIC /\ Word(h1, t + 1) = 1
        BY <1>61, <1>10, <2>2 DEF Word
    <2>4. Present(h1, t)
        BY <1>10, <2>1 DEF Present, Backed
    <2> QED BY <1>7, <1>12, <2>3, <2>4 DEF IsHoleHeader, Magic, IsHole
<1> HIDE DEF right
<1> DEFINE grown == Store(h1, own + 2, <<e - own>>)
<1>14. /\ grown \in HeapT(max) /\ Same(grown, h1) /\ grown.mem[own + 2] = e - own
       /\ \A x \in D : x # own + 2 => grown.mem[x] = h1.mem[x]
    <2> DEFINE a == own + 2
    <2>1. a \in Nat /\ start_address <= a /\ a < h1.end /\ h1.end <= max
        <3>1. own + 2 < e /\ start_address <= own + 2 /\ own + 2 \in Nat
            BY <1>4, <1>6
        <3> QED BY <1>2, <1>10, <3>1
    <2>2. e - own \in Words
        BY <1>2, <1>6, SmallWord
    <2>3. /\ grown \in HeapT(max) /\ Same(grown, h1) /\ grown.mem[a] = e - own
          /\ \A x \in DOMAIN h1.mem : x # a => grown.mem[x] = h1.mem[x]
        <3>1. grown = Store(h1, a, <<e - own>>)
            OBVIOUS
        <3> HIDE DEF grown, a
        <3> QED BY <1>2, <1>9, <1>10, <2>1, <2>2, <3>1, StoreOne
    <2> QED BY <1>10, <2>3
<1>15. h3 = [grown EXCEPT !.index = << >>]
    <2>1. Size(h1, own) = t - own /\ Size(h1, t) = e - t
        <3>2. h1.mem[own + 2] = t - own /\ h1.mem[t + 2] = e - t
            BY <1>41, <1>5, <1>61, <1>9, <1>62
        <3> QED BY <1>61, <1>10, <3>2 DEF Size, Word
    <2>2. Wrap(Size(h1, own) + Size(h1, t)) = e - own
        <3>1. e - own \in Words
            BY <1>2, <1>6, SmallWord
        <3> QED BY <1>60, <2>1, <3>1, WrapSmall
    <2>3. Contains(h1.index, t)
        BY <1>10 DEF Contains
    <2>4. SetSize(h1, own, e - own) = grown
        BY DEF SetSize
    <2>5. grown.index = <<t>>
        BY <1>10, <1>14 DEF Same
    <2>6. UnifyRight(h1, own, t) = [grown EXCEPT !.index = RemoveFirst(@, t)]
        BY <2>2, <2>3, <2>4 DEF UnifyRight
    <2>7. UnifyRight(h1, own, t) = [grown EXCEPT !.index = << >>]
        BY <2>5, <2>6, SelectOnly
    <2> QED BY <1>7, <1>12, <1>13, <2>7
<1> HIDE DEF grown, h3
<1>16. /\ h3 \in HeapT(max) /\ h3.mem = grown.mem /\ h3.index = << >> /\ h3.end = e
       /\ h3.stop = "no" /\ h3.framed = g.framed
    <2>1. << >> \in Seq(Words)
        BY EmptySeq
    <2> QED BY <1>9, <1>10, <1>14, <1>15, <2>1 DEF HeapT, Same
<1>17. /\ \A x \in D : x < own => h3.mem[x] = g.mem[x]
       /\ h3.mem[own] = HEAP_MAGIC /\ h3.mem[own + 1] = 1 /\ h3.mem[own + 2] = e - own
       /\ h3.mem[t + 2] = e - t
    <2>1. \A x \in D : x < own => h3.mem[x] = g.mem[x]
        BY <1>9, <1>14, <1>16, <1>63
    <2>2. h3.mem[own] = HEAP_MAGIC /\ h3.mem[own + 1] = 1 /\ h3.mem[own + 2] = e - own
        BY <1>41, <1>61, <1>62, <1>9, <1>14, <1>16
    <2>3. h3.mem[t + 2] = e - t
        BY <1>5, <1>61, <1>62, <1>9, <1>14, <1>16
    <2> QED BY <2>1, <2>2, <2>3
<1>18. Ground(h3, max)
    <2>1. Backed(h3) /\ h3.end % PAGE = 0 /\ start_address < h3.end /\ h3.end <= max
        BY <1>16 DEF Ground, Backed, e
    <2>3. h3.mem[start_address - 2] # HEAP_MAGIC
        BY <1>17, <1>61 DEF Ground
    <2> QED BY <1>2, <1>16, <2>1, <2>3 DEF Ground
<1>19. footer + FTR = h3.end
    <2>1. Size(h3, t) = e - t
        <3>1. DOMAIN h3.mem = D
            BY <1>16 DEF HeapT, D
        <3> QED BY <1>61, <1>17, <3>1 DEF Size, Word
    <2>2. e - 2 \in Words
        BY <1>2, <1>6, SmallWord
    <2>4. t + Size(h3, t) - FTR = e - 2
        BY <1>2, <1>60, <2>1
    <2>3. Wrap(t + Size(h3, t) - FTR) = e - 2
        BY <2>2, <2>4, WrapSmall
    <2> QED BY <1>2, <1>6, <1>7, <1>13, <1>16, <2>3
<1> HIDE DEF footer
<1>20. h4 = Shrink(h3, own, t, junk)
    BY <1>7, <1>12, <1>19
<1>21. h4.stop = "no" /\ Freed(InsertHole(h4, own), h3, own, max)
    <2>1. MIN_END <= h3.end /\ h3.mem[own + 2] = h3.end - own
        BY <1>2, <1>16, <1>17
    <2>2. own \in Nat /\ start_address <= own /\ own + 5 <= MIN_END
        BY <1>4, <1>6
    <2>3. h3.stop = "no" /\ h3.index = << >> /\ h3.mem[own] = HEAP_MAGIC /\ h3.mem[own + 1] = 1
        BY <1>16, <1>17
    <2> HIDE DEF h4
    <2> QED BY <1>18, <1>20, <2>1, <2>2, <2>3, ShrinkMeans, Zenon
<1> HIDE DEF h4
<1>22. r = InsertHole(h4, own)
    <2>1. h5 = InsertHole(h4, own)
        BY <1>11, <1>12
    <2> HIDE DEF h5
    <2> QED BY <1>1, <1>8, <1>11, <1>13, <1>16, <1>21, <2>1
<1>23. Freed(r, g, own, max)
    BY <1>17, <1>21, <1>22 DEF Freed, D
<1> QED BY <1>3, <1>23 DEF r
-----------------------------------------------------------------------------
(* Stacks in changing memory *)

(* The heap with the blocks lv, and nothing or a hole behind them. *)
Laid(g, lv, max) ==
    /\ Ground(g, max) /\ lv \in Seq(BlockT)
    /\ Stack(g.mem, lv, g.end) /\ Hole(g, Top(g.mem, lv))

LEMMA MarksInside ==
    ASSUME NEW m, NEW b, HeadOf(b) \in Nat, EndOf(m, b) \in Nat, start_address <= HeadOf(b),
           HeadOf(b) + 5 <= EndOf(m, b)
    PROVE  \A x \in Marks(m, b) : /\ x \in Nat /\ start_address <= x
                                  /\ HeadOf(b) <= x /\ x < EndOf(m, b)
<1> DEFINE p == HeadOf(b)
           q == EndOf(m, b)
<1>1. p \in Nat /\ q \in Nat /\ start_address <= p /\ p + 5 <= q /\ start_address \in Nat
    BY Start
<1>2. Marks(m, b) = {p, p + 1, p + 2, q - 2, q - 1}
    BY DEF Marks
<1> HIDE DEF p, q
<1>3. \A x \in {p, p + 1, p + 2, q - 2, q - 1} : x \in Nat /\ start_address <= x /\ p <= x /\ x < q
    BY <1>1
<1> QED BY <1>2, <1>3 DEF p, q

(* The blocks end in front of t, and what is there is as before. *)
Below(m, lv, t) ==
    \A i \in 1 .. Len(lv) : /\ HeadOf(lv[i]) \in Nat /\ EndOf(m, lv[i]) \in Nat
                            /\ start_address <= HeadOf(lv[i])
                            /\ HeadOf(lv[i]) + 5 <= EndOf(m, lv[i]) /\ EndOf(m, lv[i]) <= t
SameBelow(k, m, t, max) ==
    \A x \in start_address - PAGE .. max - 1 : x < t => k[x] = m[x]

LEMMA StackBelow ==
    ASSUME NEW max \in Nat, NEW m, NEW k, NEW lv, NEW end, Stack(m, lv, end), Len(lv) \in Nat,
           NEW t \in Nat, t <= max, Below(m, lv, t), SameBelow(k, m, t, max)
    PROVE  /\ Stack(k, lv, end) /\ Top(k, lv) = Top(m, lv)
           /\ \A i \in 1 .. Len(lv) : EndOf(k, lv[i]) = EndOf(m, lv[i])
<1>1. ASSUME NEW i \in 1 .. Len(lv), NEW x \in Marks(m, lv[i]) PROVE k[x] = m[x]
    <2>1. /\ HeadOf(lv[i]) \in Nat /\ EndOf(m, lv[i]) \in Nat /\ start_address <= HeadOf(lv[i])
          /\ HeadOf(lv[i]) + 5 <= EndOf(m, lv[i]) /\ EndOf(m, lv[i]) <= t
        BY DEF Below
    <2>2. x \in Nat /\ start_address <= x /\ x < EndOf(m, lv[i])
        BY <2>1, MarksInside
    <2>3. x < t
        BY <2>1, <2>2
    <2>4. x \in start_address - PAGE .. max - 1
        BY <2>2, <2>3, Start, Constants
    <2> QED BY <2>3, <2>4 DEF SameBelow
<1>2. /\ \A i \in 1 .. Len(lv) : EndOf(k, lv[i]) = EndOf(m, lv[i])
      /\ Stack(k, lv, end)
    <2>1. KeepsMarks(k, m, lv)
        BY <1>1, Zenon DEF KeepsMarks
    <2> QED BY <2>1, StackKeeps
<1>3. Top(k, lv) = Top(m, lv)
    <2>1. CASE Len(lv) = 0
        BY <2>1 DEF Top
    <2>2. CASE Len(lv) # 0
        <3>1. Len(lv) \in 1 .. Len(lv)
            BY <2>2
        <3> QED BY <1>2, <2>2, <3>1 DEF Top
    <2> QED BY <2>1, <2>2
<1> QED BY <1>2, <1>3

LEMMA LaidTypes ==
    ASSUME NEW max, NEW g, NEW lv, Laid(g, lv, max)
    PROVE  /\ Len(lv) \in Nat /\ g.end \in Nat /\ max \in Nat /\ g.end <= max
           /\ start_address \in Nat /\ PAGE \in Nat /\ PAGE > 5 /\ start_address >= 2 * PAGE
           /\ \A i \in 1 .. Len(lv) :
                /\ HeadOf(lv[i]) \in Nat /\ EndOf(g.mem, lv[i]) \in Nat
                /\ lv[i].size \in Nat /\ lv[i].ptr = HeadOf(lv[i]) + 3 /\ lv[i].align = FALSE
                /\ start_address <= HeadOf(lv[i])
                /\ HeadOf(lv[i]) + lv[i].size + 5 <= EndOf(g.mem, lv[i])
                /\ HeadOf(lv[i]) + 5 <= EndOf(g.mem, lv[i])
                /\ EndOf(g.mem, lv[i]) <= Top(g.mem, lv)
           /\ Top(g.mem, lv) \in Nat /\ start_address <= Top(g.mem, lv)
           /\ Top(g.mem, lv) <= g.end /\ Top(g.mem, lv) <= max
<1>1. /\ Ground(g, max) /\ lv \in Seq(BlockT) /\ Stack(g.mem, lv, g.end)
    BY DEF Laid
<1>2. /\ start_address \in Nat /\ PAGE \in Nat /\ PAGE > 5 /\ start_address >= 2 * PAGE
      /\ g.end \in Nat /\ max \in Nat /\ g.end <= max
    BY <1>1, GroundTypes, Constants, Start
<1>3. /\ Len(lv) \in Nat
      /\ Top(g.mem, lv) \in Nat /\ start_address <= Top(g.mem, lv) /\ Top(g.mem, lv) <= g.end
    BY <1>1, StackTypes
<1>4. Top(g.mem, lv) <= max
    BY <1>2, <1>3
<1>5. ASSUME NEW i \in 1 .. Len(lv)
      PROVE  /\ HeadOf(lv[i]) \in Nat /\ EndOf(g.mem, lv[i]) \in Nat
             /\ lv[i].size \in Nat /\ lv[i].ptr = HeadOf(lv[i]) + 3 /\ lv[i].align = FALSE
             /\ start_address <= HeadOf(lv[i])
             /\ HeadOf(lv[i]) + lv[i].size + 5 <= EndOf(g.mem, lv[i])
             /\ HeadOf(lv[i]) + 5 <= EndOf(g.mem, lv[i])
             /\ EndOf(g.mem, lv[i]) <= Top(g.mem, lv)
    <2>1. /\ lv[i] \in BlockT /\ HeadOf(lv[i]) \in Nat /\ EndOf(g.mem, lv[i]) \in Nat
          /\ lv[i].ptr = HeadOf(lv[i]) + 3
          /\ start_address <= HeadOf(lv[i])
          /\ HeadOf(lv[i]) + lv[i].size + 5 <= EndOf(g.mem, lv[i])
          /\ EndOf(g.mem, lv[i]) <= Top(g.mem, lv)
        BY <1>1, StackTypes
    <2>2. lv[i].size \in Nat /\ lv[i].align = FALSE
        BY <2>1 DEF BlockT
    <2>3. HeadOf(lv[i]) + 5 <= EndOf(g.mem, lv[i])
        BY <2>1, <2>2
    <2> QED BY <2>1, <2>2, <2>3
<1> QED BY <1>2, <1>3, <1>4, <1>5

(* The words of a block that belong to the client, as many as it fills.     *)
Filled(g, b, n, d) ==
    [g EXCEPT !.mem = [a \in DOMAIN @ |-> IF a \in b.ptr .. b.ptr + n - 1 THEN d ELSE @[a]]]

LEMMA FillMeans ==
    ASSUME NEW max, NEW g, NEW lv, Laid(g, lv, max), NEW i \in 1 .. Len(lv),
           NEW n \in Nat, n <= lv[i].size, NEW d \in Words
    PROVE  /\ Laid(Filled(g, lv[i], n, d), lv, max)
           /\ Filled(g, lv[i], n, d).end = g.end /\ Filled(g, lv[i], n, d).stop = g.stop
           /\ Top(Filled(g, lv[i], n, d).mem, lv) = Top(g.mem, lv)
           /\ \A x \in start_address - PAGE .. max - 1 :
                 x < lv[i].ptr => Filled(g, lv[i], n, d).mem[x] = g.mem[x]
<1> DEFINE k == Filled(g, lv[i], n, d)
           D == start_address - PAGE .. max - 1
           p == HeadOf(lv[i])
           q == EndOf(g.mem, lv[i])
           t == Top(g.mem, lv)
           F == lv[i].ptr .. lv[i].ptr + n - 1
           m == [a \in D |-> IF a \in F THEN d ELSE g.mem[a]]
<1>1. Ground(g, max) /\ Stack(g.mem, lv, g.end) /\ Hole(g, t) /\ g \in HeapT(max)
    BY DEF Laid, Ground
<1>2. g.mem \in [D -> Words]
    BY <1>1, GroundTypes
<1>3. k = [g EXCEPT !.mem = m]
    BY <1>2 DEF Filled
<1>4. m \in [D -> Words]
    BY <1>2
<1>5. /\ k \in HeapT(max) /\ k.mem = m /\ k.index = g.index /\ k.end = g.end
      /\ k.framed = g.framed /\ k.stop = g.stop
    <2> HIDE DEF k, m
    <2> QED BY <1>1, <1>3, <1>4 DEF HeapT
<1> HIDE DEF k
<1>6. /\ p \in Nat /\ q \in Nat /\ lv[i].size \in Nat /\ lv[i].ptr = p + 3
      /\ start_address <= p /\ p + lv[i].size + 5 <= q /\ q <= t
      /\ start_address \in Nat /\ PAGE \in Nat /\ PAGE > 5 /\ max \in Nat /\ t \in Nat /\ t <= max
      /\ g.end \in Nat /\ g.end <= max /\ start_address >= 2 * PAGE
    BY LaidTypes
<1> HIDE DEF p, q, t
<1>7. \A x \in F : x \in Nat /\ p + 2 < x /\ x < q - 2
    <2> DEFINE z == lv[i].size
               b == lv[i].ptr
    <2>1. z \in Nat /\ n <= z /\ b = p + 3 /\ p + z + 5 <= q
        BY <1>6
    <2> HIDE DEF z, b
    <2>2. \A x \in b .. b + n - 1 : x \in Nat /\ p + 2 < x /\ x < q - 2
        BY <1>6, <2>1
    <2> QED BY <2>2 DEF b
<1>8. \A x \in D : x \notin F => m[x] = g.mem[x]
    OBVIOUS
<1> HIDE DEF F, m
<1>9. ASSUME NEW j \in 1 .. Len(lv), NEW x \in Marks(g.mem, lv[j]) PROVE m[x] = g.mem[x]
    <2> DEFINE pj == HeadOf(lv[j])
               qj == EndOf(g.mem, lv[j])
    <2>1. /\ pj \in Nat /\ qj \in Nat /\ start_address <= pj /\ pj + 5 <= qj /\ qj <= t
        BY LaidTypes DEF t
    <2>2. x \in Nat /\ start_address <= x /\ pj <= x /\ x < qj
        BY <2>1, MarksInside
    <2>3. x \in D
        <3> HIDE DEF pj, qj
        <3> QED BY <1>6, <2>1, <2>2
    <2>4. x \notin F
        <3>1. CASE j = i
            <4>1. x \in {p, p + 1, p + 2, q - 2, q - 1}
                BY <3>1 DEF Marks, p, q
            <4>2. \A y \in {p, p + 1, p + 2, q - 2, q - 1} : ~ (p + 2 < y /\ y < q - 2)
                BY <1>6
            <4> QED BY <1>7, <4>1, <4>2
        <3>2. CASE j < i
            <4>1. qj <= p
                BY <1>1, <3>2 DEF Stack, p
            <4> HIDE DEF pj, qj
            <4>2. x < p
                BY <1>6, <2>1, <2>2, <4>1
            <4>3. ~ (p + 2 < x)
                BY <1>6, <2>2, <4>2
            <4> QED BY <1>7, <4>3
        <3>3. CASE j > i
            <4>1. q <= pj
                BY <1>1, <3>3 DEF Stack, q
            <4> HIDE DEF pj, qj
            <4>2. ~ (x < q - 2)
                BY <1>6, <2>1, <2>2, <4>1
            <4> QED BY <1>7, <4>2
        <3>4. j \in Int /\ i \in Int
            OBVIOUS
        <3> QED BY <3>1, <3>2, <3>3, <3>4
    <2> QED BY <1>8, <2>3, <2>4
<1>10. /\ \A j \in 1 .. Len(lv) : EndOf(m, lv[j]) = EndOf(g.mem, lv[j])
       /\ Stack(m, lv, g.end)
    <2>1. KeepsMarks(m, g.mem, lv)
        BY <1>9, Zenon DEF KeepsMarks
    <2> QED BY <1>1, <2>1, StackKeeps
<1>11. Top(m, lv) = t
    <2>1. CASE Len(lv) = 0
        BY <2>1 DEF Top, t
    <2>2. CASE Len(lv) # 0
        <3>1. Len(lv) \in 1 .. Len(lv)
            BY <2>2, LaidTypes
        <3> QED BY <1>10, <2>2, <3>1 DEF Top, t
    <2> QED BY <2>1, <2>2
<1>12. Hole(k, t)
    <2>1. CASE g.index = << >> /\ t = g.end
        BY <1>5, <2>1 DEF Hole
    <2>2. CASE /\ g.index = <<t>> /\ t + HDR + FTR <= g.end
               /\ g.mem[t] = HEAP_MAGIC /\ g.mem[t + 1] = 1 /\ g.mem[t + 2] = g.end - t
        <3>1. t + 5 <= g.end
            BY <1>6, <2>2, Constants
        <3>2. \A y \in {t, t + 1, t + 2} : y \in D /\ ~ (y < q - 2)
            BY <1>6, <3>1
        <3>3. \A y \in {t, t + 1, t + 2} : m[y] = g.mem[y]
            BY <1>7, <1>8, <3>2
        <3>4. m[t] = HEAP_MAGIC /\ m[t + 1] = 1 /\ m[t + 2] = g.end - t
            BY <2>2, <3>3
        <3> QED BY <1>5, <2>2, <3>4 DEF Hole
    <2> QED BY <1>1, <2>1, <2>2 DEF Hole
<1>13. \A x \in D : x < lv[i].ptr => m[x] = g.mem[x]
    <2>1. \A x \in D : x < p + 3 => ~ (p + 2 < x)
        BY <1>6
    <2> QED BY <1>6, <1>7, <1>8, <2>1
<1>14. Ground(k, max)
    <2>1. start_address - 2 \in D /\ ~ (p + 2 < start_address - 2)
        BY <1>6
    <2>2. m[start_address - 2] # HEAP_MAGIC
        BY <1>1, <1>7, <1>8, <2>1 DEF Ground
    <2>3. Backed(k)
        BY <1>1, <1>5 DEF Ground, Backed
    <2> QED BY <1>1, <1>5, <2>2, <2>3 DEF Ground
<1>15. Laid(k, lv, max)
    BY <1>5, <1>10, <1>11, <1>12, <1>14 DEF Laid
<1> QED BY <1>5, <1>11, <1>13, <1>15 DEF k, t
-----------------------------------------------------------------------------
(* The operations on a heap that is laid out as a stack *)

(* alloc has grown the heap: the blocks are where they were. *)
GrownLaid(k, g, lv, max) ==
    /\ Laid(k, lv, max) /\ k.stop = "no" /\ k.end > g.end
    /\ Top(k.mem, lv) = Top(g.mem, lv)
    /\ SameBelow(k.mem, g.mem, Top(g.mem, lv), max)

LEMMA GrowLaid ==
    ASSUME NEW max, NEW g, NEW lv, Laid(g, lv, max), g.stop = "no", NEW n \in Nat, n >= 5
    PROVE  Grow(n, max, g) = [g EXCEPT !.stop = "oom"] \/ GrownLaid(Grow(n, max, g), g, lv, max)
<1> DEFINE k == Grow(n, max, g)
           t == Top(g.mem, lv)
<1>1. Ground(g, max) /\ Hole(g, t) /\ Stack(g.mem, lv, g.end) /\ lv \in Seq(BlockT)
    BY DEF Laid
<1>2. t \in Nat /\ start_address <= t /\ t <= max /\ max \in Nat
    BY LaidTypes
<1>3. k = [g EXCEPT !.stop = "oom"] \/ Grown(k, g, t, n, max)
    <2> HIDE DEF t
    <2> QED BY <1>1, <1>2, GrowMeans
<1> HIDE DEF k
<1>4. ASSUME Grown(k, g, t, n, max) PROVE GrownLaid(k, g, lv, max)
    <2>1. /\ Ground(k, max) /\ k.stop = "no" /\ k.end > g.end + n /\ Hole(k, t)
          /\ SameBelow(k.mem, g.mem, t, max)
        BY <1>4 DEF Grown, SameBelow
    <2>2. Below(g.mem, lv, t)
        BY LaidTypes DEF Below
    <2>3. Len(lv) \in Nat /\ g.end \in Nat /\ k.end \in Nat
        BY <2>1, LaidTypes, GroundTypes
    <2>4. k.end > g.end
        BY <2>1, <2>3
    <2>5. Stack(g.mem, lv, k.end)
        <3>1. ASSUME NEW i \in 1 .. Len(lv)
              PROVE  Block(g.mem, lv[i]) /\ HeadOf(lv[i]) + 5 <= k.end /\ EndOf(g.mem, lv[i]) <= k.end
            <4>1. Block(g.mem, lv[i]) /\ HeadOf(lv[i]) + 5 <= g.end /\ EndOf(g.mem, lv[i]) <= g.end
                BY <1>1 DEF Stack
            <4>2. HeadOf(lv[i]) \in Nat /\ EndOf(g.mem, lv[i]) \in Nat
                BY <2>2 DEF Below
            <4> QED BY <2>3, <2>4, <4>1, <4>2
        <3> QED BY <1>1, <3>1 DEF Stack
    <2>6. Stack(k.mem, lv, k.end) /\ Top(k.mem, lv) = t
        <3> HIDE DEF t
        <3>1. Stack(k.mem, lv, k.end) /\ Top(k.mem, lv) = Top(g.mem, lv)
            BY <1>2, <2>1, <2>2, <2>3, <2>5, StackBelow
        <3> QED BY <3>1 DEF t
    <2>7. Laid(k, lv, max)
        BY <1>1, <2>1, <2>6 DEF Laid
    <2> QED BY <2>1, <2>4, <2>6, <2>7 DEF GrownLaid
<1> QED BY <1>3, <1>4 DEF k

(* alloc has given out b, of n words with its markers. *)
AllocLaid(k, g, lv, b, n, max) ==
    /\ Laid(k, Append(lv, b), max) /\ k.stop = "no" /\ k.end = g.end
    /\ Top(k.mem, Append(lv, b)) = Top(g.mem, lv) + n
    /\ SameBelow(k.mem, g.mem, Top(g.mem, lv), max)

(* b is what alloc gives out for a request, from hole number i. *)
Answers(b, i, size, clear, g) ==
    /\ clear <= size /\ i = find_smallest_hole(size + HDR + FTR, FALSE, g) /\ i # 0
    /\ b.ptr = Carve(size, FALSE, i, g).ptr /\ b.size = size
    /\ b.ptr \in Nat => b \in BlockT

LEMMA CarveLaid ==
    ASSUME NEW max, NEW g, NEW lv, Laid(g, lv, max), g.stop = "no",
           NEW size \in Nat, NEW clear \in Nat, NEW i, NEW b, Answers(b, i, size, clear, g)
    PROVE  /\ size + 5 <= g.end - Top(g.mem, lv)
           /\ NewSize(g.end, Top(g.mem, lv), size) \in Nat
           /\ b.ptr = Top(g.mem, lv) + 3
           /\ AllocLaid(Clear(Carve(size, FALSE, i, g).heap, b.ptr, clear), g, lv, b,
                        NewSize(g.end, Top(g.mem, lv), size), max)
<1> DEFINE t == Top(g.mem, lv)
           e == g.end
           n == NewSize(e, t, size)
           c == Carve(size, FALSE, i, g)
           D == start_address - PAGE .. max - 1
           w == Append(lv, b)
<1> /\ clear <= size /\ i = find_smallest_hole(size + HDR + FTR, FALSE, g) /\ i # 0
    /\ b.ptr = Carve(size, FALSE, i, g).ptr /\ b.size = size
    BY DEF Answers
<1>1. Ground(g, max) /\ Hole(g, t) /\ Stack(g.mem, lv, e) /\ lv \in Seq(BlockT)
    BY DEF Laid
<1>2. /\ t \in Nat /\ start_address <= t /\ t <= max /\ max \in Nat /\ e \in Nat /\ t <= e /\ e <= max
      /\ start_address \in Nat /\ PAGE \in Nat /\ Len(lv) \in Nat
    BY LaidTypes
<1>3. HDR = 3 /\ FTR = 2
    BY DEF HDR, FTR
<1> HIDE DEF t, e
<1>4. i = 1 /\ g.index = <<t>> /\ size + 5 <= e - t
    <2>1. g.index # << >>
        BY FindMeans
    <2>2. /\ g.index = <<t>> /\ t + 5 <= e /\ g.mem[t + 2] = e - t
        BY <1>1, <1>2, <1>3, <2>1 DEF Hole, e
    <2>3. Size(g, t) = e - t
        <3>1. t + 2 \in D
            BY <1>2, <2>2
        <3>2. DOMAIN g.mem = D
            BY <1>1, GroundTypes
        <3> QED BY <2>2, <3>1, <3>2 DEF Size, Word
    <2>4. i = IF e - t >= size + HDR + FTR THEN 1 ELSE 0
        BY <2>2, <2>3, FindMeans
    <2>5. i = 1 /\ e - t >= size + HDR + FTR
        BY <2>4
    <2>6. size + 5 <= e - t
        BY <1>2, <1>3, <2>5
    <2> QED BY <2>2, <2>5, <2>6
<1>5. n \in Nat /\ size + 5 <= n /\ Carved(c, g, t, n, max)
    <2>1. g.end = e
        BY DEF e
    <2> HIDE DEF n
    <2>2. /\ NewSize(e, t, size) \in Nat /\ size + 5 <= NewSize(e, t, size)
          /\ Carved(Carve(size, FALSE, 1, g), g, t, NewSize(e, t, size), max)
        BY <1>1, <1>2, <1>4, <2>1, CarveMeans
    <2> QED BY <1>4, <2>2 DEF n
<1> HIDE DEF c, n
<1>6. /\ c.ptr = t + 3 /\ Ground(c.heap, max) /\ c.heap.end = e /\ c.heap.stop = "no"
      /\ \A x \in D : x < t => c.heap.mem[x] = g.mem[x]
      /\ c.heap.mem[t] = HEAP_MAGIC /\ c.heap.mem[t + 1] = 0 /\ c.heap.mem[t + 2] = n
      /\ c.heap.mem[(t + n) - 2] = HEAP_MAGIC /\ c.heap.mem[(t + n) - 1] = t
      /\ Hole(c.heap, t + n)
    BY <1>5 DEF Carved, e
<1>7. b.ptr = t + 3 /\ b \in BlockT /\ HeadOf(b) = t /\ EndOf(c.heap.mem, b) = t + n
    <2>1. b.ptr = t + 3
        BY <1>6 DEF c
    <2>3. b \in BlockT
        <3>1. t + 3 \in Nat
            BY <1>2
        <3>2. b.ptr \in Nat
            BY <2>1, <3>1, Zenon
        <3> QED BY <3>2, Zenon DEF Answers
    <2>2. HeadOf(b) = t
        <3>1. (t + 3) - 3 = t
            BY <1>2
        <3>2. HeadOf(b) = (t + 3) - 3
            BY <1>3, <2>1 DEF HeadOf
        <3> QED BY <3>1, <3>2
    <2> QED BY <1>6, <2>1, <2>2, <2>3 DEF EndOf
<1>8. Stack(c.heap.mem, lv, c.heap.end) /\ Top(c.heap.mem, lv) = t
    <2>1. Below(g.mem, lv, t)
        BY LaidTypes DEF t, Below
    <2>3. SameBelow(c.heap.mem, g.mem, t, max)
        BY <1>6 DEF SameBelow
    <2>2. Stack(c.heap.mem, lv, e) /\ Top(c.heap.mem, lv) = Top(g.mem, lv)
        BY <1>1, <1>2, <2>1, <2>3, StackBelow
    <2> QED BY <1>6, <2>2 DEF t
<1>9. Block(c.heap.mem, b) /\ HeadOf(b) + 5 <= c.heap.end /\ EndOf(c.heap.mem, b) <= c.heap.end
    <2>1. t + n <= e /\ t + 5 <= e
        <3>1. t + n = c.heap.end \/ (t + n) + HDR + FTR <= c.heap.end
            BY <1>6 DEF Hole
        <3> QED BY <1>2, <1>3, <1>4, <1>5, <1>6, <3>1
    <2>2. Block(c.heap.mem, b)
        BY <1>2, <1>3, <1>5, <1>6, <1>7 DEF Block
    <2> QED BY <1>6, <1>7, <2>1, <2>2
<1>10. /\ w \in Seq(BlockT) /\ Len(w) = Len(lv) + 1 /\ Stack(c.heap.mem, w, c.heap.end)
       /\ Top(c.heap.mem, w) = t + n
    <2> HIDE DEF w
    <2>1. /\ Append(lv, b) \in Seq(BlockT) /\ Len(Append(lv, b)) = Len(lv) + 1
          /\ Stack(c.heap.mem, Append(lv, b), c.heap.end)
          /\ Top(c.heap.mem, Append(lv, b)) = EndOf(c.heap.mem, b)
        BY <1>1, <1>6, <1>7, <1>8, <1>9, StackPush
    <2> QED BY <1>7, <2>1 DEF w
<1>11. Laid(c.heap, w, max)
    BY <1>6, <1>10 DEF Laid
<1> DEFINE j == Len(w)
           k == Clear(c.heap, b.ptr, clear)
<1>12. j \in 1 .. Len(w) /\ w[j] = b
    BY <1>1, <1>2, <1>7, <1>10, AppendProperties
<1> HIDE DEF w
<1>13. k = Filled(c.heap, w[j], clear, 0)
    <2>1. \A a \in b.ptr .. b.ptr + clear - 1 : Present(c.heap, a)
        <3> DEFINE p == t + 3
        <3>1. p \in Nat /\ p + clear <= e /\ start_address <= p
            BY <1>2, <1>4
        <3> HIDE DEF p
        <3>2. \A a \in p .. p + clear - 1 : a \in start_address .. e - 1
            BY <1>2, <3>1
        <3>3. \A a \in p .. p + clear - 1 : Present(c.heap, a)
            BY <1>6, <3>2 DEF Ground, Backed, Present
        <3>4. b.ptr = p
            BY <1>7 DEF p
        <3> QED BY <3>3, <3>4
    <2> QED BY <1>6, <1>12, <2>1 DEF Clear, Filled
<1> HIDE DEF k, j
<1>14. /\ Laid(k, w, max) /\ k.end = e /\ k.stop = "no" /\ Top(k.mem, w) = t + n
       /\ \A x \in D : x < b.ptr => k.mem[x] = c.heap.mem[x]
    <2>1. clear <= w[j].size /\ 0 \in Words
        <3>1. 0 \in Words
            BY <1>1, <1>2, SmallWord DEF Ground
        <3> QED BY <1>12, <3>1
    <2>2. /\ Laid(Filled(c.heap, w[j], clear, 0), w, max)
          /\ Filled(c.heap, w[j], clear, 0).end = c.heap.end
          /\ Filled(c.heap, w[j], clear, 0).stop = c.heap.stop
          /\ Top(Filled(c.heap, w[j], clear, 0).mem, w) = Top(c.heap.mem, w)
          /\ \A x \in start_address - PAGE .. max - 1 :
                 x < w[j].ptr => Filled(c.heap, w[j], clear, 0).mem[x] = c.heap.mem[x]
        BY <1>11, <1>12, <2>1, FillMeans
    <2> QED BY <1>6, <1>10, <1>12, <1>13, <2>2
<1>15. \A x \in D : x < t => k.mem[x] = g.mem[x]
    <2>1. \A x \in D : x < t => x < t + 3
        BY <1>2
    <2> QED BY <1>6, <1>7, <1>14, <2>1
<1>16. AllocLaid(k, g, lv, b, n, max)
    BY <1>14, <1>15 DEF AllocLaid, SameBelow, w, t, e
<1> QED BY <1>4, <1>5, <1>7, <1>16 DEF k, c, n, e, t

(* free has taken back the top block. *)
FreeLaid(k, g, lv, max) ==
    /\ Laid(k, RemoveAt(lv, Len(lv)), max) /\ k.stop = "no" /\ k.end = MIN_END
    /\ Top(k.mem, RemoveAt(lv, Len(lv))) = HeadOf(lv[Len(lv)])
    /\ SameBelow(k.mem, g.mem, HeadOf(lv[Len(lv)]), max)

LEMMA GiveBackLaid ==
    ASSUME NEW max, NEW g, NEW lv, Laid(g, lv, max), g.stop = "no", Len(lv) > 0,
           2 * PAGE <= HEAP_MIN_SIZE, MIN_END <= g.end, Top(g.mem, lv) + 5 <= MIN_END,
           NEW junk \in Junk
    PROVE  FreeLaid(free(lv[Len(lv)].ptr, junk, g), g, lv, max)
<1> DEFINE k == free(lv[Len(lv)].ptr, junk, g)
           t == Top(g.mem, lv)
           own == HeadOf(lv[Len(lv)])
           w == RemoveAt(lv, Len(lv))
<1>1. Ground(g, max) /\ Hole(g, t) /\ Stack(g.mem, lv, g.end) /\ lv \in Seq(BlockT)
    BY DEF Laid
<1>2. t \in Nat /\ t <= max /\ max \in Nat /\ Len(lv) \in 1 .. Len(lv) /\ Len(lv) \in Nat
    <2>1. t \in Nat /\ t <= max /\ max \in Nat /\ Len(lv) \in Nat
        BY LaidTypes
    <2>2. Len(lv) \in 1 .. Len(lv)
        BY <2>1
    <2> QED BY <2>1, <2>2
<1>3. own \in Nat /\ own + 5 <= EndOf(g.mem, lv[Len(lv)]) /\ EndOf(g.mem, lv[Len(lv)]) <= t
      /\ EndOf(g.mem, lv[Len(lv)]) \in Nat
    BY <1>2, LaidTypes
<1>4. MIN_END \in Nat
    BY MinEnd
<1>5. own <= MIN_END /\ own <= max /\ own <= t
    <2> HIDE DEF own, t
    <2>1. t + 5 <= MIN_END
        BY DEF t
    <2> QED BY <1>2, <1>3, <1>4, <2>1
<1>6. Freed(k, g, own, max)
    <2> HIDE DEF t
    <2>1. t = Top(g.mem, lv) /\ t + 5 <= MIN_END
        BY DEF t
    <2> QED BY <1>1, <1>2, <2>1, FreeMeans
<1> HIDE DEF k
<1>7. /\ Ground(k, max) /\ k.stop = "no" /\ k.end = MIN_END /\ Hole(k, own)
      /\ SameBelow(k.mem, g.mem, own, max)
    BY <1>6 DEF Freed, SameBelow
<1>8. w \in Seq(BlockT) /\ Stack(g.mem, w, MIN_END) /\ Top(g.mem, w) = own
    BY <1>1, <1>4, <1>5, StackPop
<1>9. /\ Len(w) = Len(lv) - 1 /\ Len(w) \in Nat /\ \A i \in 1 .. Len(w) : w[i] = lv[i]
    <2>1. Len(w) = Len(lv) - 1 /\ \A i \in 1 .. Len(lv) - 1 : w[i] = lv[i]
        BY <1>1, RemoveLast
    <2> QED BY <1>2, <2>1
<1>10. ASSUME NEW i \in 1 .. Len(w)
       PROVE  /\ HeadOf(w[i]) \in Nat /\ EndOf(g.mem, w[i]) \in Nat
              /\ start_address <= HeadOf(w[i])
              /\ HeadOf(w[i]) + 5 <= EndOf(g.mem, w[i]) /\ EndOf(g.mem, w[i]) <= own
    <2>1. i \in 1 .. Len(lv) /\ i < Len(lv) /\ w[i] = lv[i]
        BY <1>2, <1>9
    <2>2. EndOf(g.mem, lv[i]) <= own
        BY <1>1, <1>2, <2>1 DEF Stack
    <2>3. /\ HeadOf(lv[i]) \in Nat /\ EndOf(g.mem, lv[i]) \in Nat
          /\ start_address <= HeadOf(lv[i])
          /\ HeadOf(lv[i]) + 5 <= EndOf(g.mem, lv[i])
        BY <2>1, LaidTypes
    <2> QED BY <2>1, <2>2, <2>3
<1> HIDE DEF own, w
<1>11. Stack(k.mem, w, k.end) /\ Top(k.mem, w) = own
    <2>1. Stack(k.mem, w, MIN_END) /\ Top(k.mem, w) = Top(g.mem, w)
        <3>1. Below(g.mem, w, own)
            BY <1>10 DEF Below
        <3> QED BY <1>2, <1>3, <1>5, <1>7, <1>8, <1>9, <3>1, StackBelow
    <2> QED BY <1>7, <1>8, <2>1
<1>12. Laid(k, w, max)
    BY <1>7, <1>8, <1>11 DEF Laid
<1> QED BY <1>7, <1>11, <1>12 DEF FreeLaid, k, w, own
-----------------------------------------------------------------------------
(* The inductive invariant *)

(* A bound on the words a block takes, with its markers. *)
Bounds(s, b) == /\ \A r \in Of(s) : r.size + HDR + FTR <= b
                /\ s.holds * b + HDR + FTR <= HEAP_MIN_SIZE
Bound(s) == CHOOSE b \in 0 .. HEAP_MIN_SIZE : Bounds(s, b)

(* What is asked of the heap is what the client may ask for. *)
Called(lv, c, s) ==
    c \subseteq Of(s) /\ Len(lv) <= s.holds /\ (c # {} => Len(lv) < s.holds)

(* What a client holds that gives blocks back stays in front of the least   *)
(* end of the heap.                                                         *)
Room(g, lv, s) ==
    s.frees = "lifo" =>
        /\ MIN_END <= g.end /\ Top(g.mem, lv) <= start_address + Len(lv) * Bound(s)
        /\ \A i \in 1 .. Len(lv) : HeadOf(lv[i]) <= start_address + (i - 1) * Bound(s)

Sound(g, lv, c, s) ==
    /\ s \in Scenarios /\ Plain(s)
    /\ Laid(g, lv, s.max) /\ g.stop \in {"no", "oom"}
    /\ Called(lv, c, s) /\ Room(g, lv, s)

HInv == Sound(h, live, calling, scenario)

LEMMA PlainMeans ==
    ASSUME NEW s \in Scenarios, Plain(s)
    PROVE  /\ s.end \in Nat /\ s.max \in Nat /\ s.holds \in Nat /\ s.script \in Seq(SUBSET Request)
           /\ s.requests \subseteq Request
           /\ s.end % PAGE = 0 /\ start_address < s.end /\ s.end <= s.max /\ s.max < WRAP
           /\ s.frees \in {"never", "lifo"}
           /\ \A r \in Of(s) : /\ r.size \in Nat /\ r.clear \in Nat /\ r.align = FALSE
                               /\ r.clear <= r.size
           /\ s.frees = "lifo" =>
                /\ 2 * PAGE <= HEAP_MIN_SIZE /\ MIN_END <= s.end
                /\ Bound(s) \in Nat /\ s.holds * Bound(s) + 5 <= HEAP_MIN_SIZE
                /\ \A r \in Of(s) : r.size + 5 <= Bound(s)
<1>1. s \in Scenario
    BY ScenariosAssumption
<1>2. /\ s.end \in Nat /\ s.max \in Nat /\ s.holds \in Nat /\ s.script \in Seq(SUBSET Request)
      /\ s.requests \subseteq Request
    BY <1>1 DEF Scenario
<1>3. Of(s) \subseteq Request
    <2>1. \A k \in DOMAIN s.script : s.script[k] \subseteq Request
        BY <1>2
    <2> QED BY <1>2, <2>1 DEF Of
<1>4. \A r \in Of(s) : r.size \in Nat /\ r.clear \in Nat /\ r.align = FALSE /\ r.clear <= r.size
    <2> TAKE r \in Of(s)
    <2>1. r \in [size : Nat, align : BOOLEAN, clear : Nat]
        BY <1>3 DEF Request
    <2>2. ~ r.align /\ r.clear <= r.size
        BY DEF Plain
    <2>3. r.align \in BOOLEAN /\ r.size \in Nat /\ r.clear \in Nat
        BY <2>1
    <2> QED BY <2>2, <2>3
<1>5. /\ s.end % PAGE = 0 /\ start_address < s.end /\ s.end <= s.max /\ s.max < WRAP
      /\ s.frees \in {"never", "lifo"}
    BY DEF Plain
<1>6. ASSUME s.frees = "lifo"
      PROVE  /\ 2 * PAGE <= HEAP_MIN_SIZE /\ MIN_END <= s.end
             /\ Bound(s) \in Nat /\ s.holds * Bound(s) + 5 <= HEAP_MIN_SIZE
             /\ \A r \in Of(s) : r.size + 5 <= Bound(s)
    <2>1. /\ 2 * PAGE <= HEAP_MIN_SIZE /\ MIN_END <= s.end
          /\ \E b \in 0 .. HEAP_MIN_SIZE : Bounds(s, b)
        BY <1>6 DEF Plain, Bounds, MIN_END
    <2>2. Bound(s) \in 0 .. HEAP_MIN_SIZE /\ Bounds(s, Bound(s))
        BY <2>1 DEF Bound
    <2> DEFINE b == Bound(s)
    <2>3. b \in Nat
        BY <2>2, Constants
    <2> HIDE DEF b
    <2>4. s.holds * b + 3 + 2 <= HEAP_MIN_SIZE /\ \A r \in Of(s) : r.size + 3 + 2 <= b
        BY <2>2 DEF Bounds, b, HDR, FTR
    <2>5. s.holds * b \in Nat
        BY <1>2, <2>3
    <2>6. s.holds * b + 5 <= HEAP_MIN_SIZE
        BY <2>4, <2>5, Constants
    <2>7. \A r \in Of(s) : r.size + 5 <= b
        BY <1>4, <2>3, <2>4
    <2> QED BY <2>1, <2>3, <2>6, <2>7 DEF b
<1> QED BY <1>2, <1>4, <1>5, <1>6

LEMMA InitHeap ==
    ASSUME Init, Plain(scenario)
    PROVE  HInv /\ h.stop = "no"
<1> DEFINE s == scenario
           D == start_address - PAGE .. s.max - 1
<1>1. s \in Scenarios /\ live = << >> /\ calling = {}
    BY DEF Init
<1>2. PICK junk \in Garbage : h = create_heap(s.end, s.max, junk)
    BY DEF Init
<1>3. /\ s.end \in Nat /\ s.max \in Nat /\ s.holds \in Nat
      /\ s.end % PAGE = 0 /\ start_address < s.end /\ s.end <= s.max /\ s.max < WRAP
      /\ s.frees = "lifo" => MIN_END <= s.end /\ Bound(s) \in Nat
    BY <1>1, PlainMeans
<1>4. /\ start_address \in Nat /\ start_address % PAGE = 0 /\ PAGE \in Nat /\ PAGE > 5
      /\ start_address >= 2 * PAGE /\ HEAP_MAGIC \in Words /\ junk \in Words /\ junk # HEAP_MAGIC
    BY Start, Constants
<1> DEFINE e == s.end
           max == s.max
           blank == [mem |-> [a \in start_address - PAGE .. max - 1 |-> junk], index |-> << >>, end |-> e,
                     framed |-> start_address \div PAGE - 1 .. e \div PAGE - 1, freed |-> {}, stop |-> "no"]
           headed == StoreHeader(blank, start_address, 1, e - start_address)
<1>5. h = InsertHole(headed, start_address)
    BY <1>2 DEF create_heap
<1>6. e \in Nat /\ max \in Nat /\ e % PAGE = 0 /\ start_address < e /\ e <= max /\ max < WRAP
    BY <1>3
<1> HIDE DEF e, max
<1>7. e \in Words /\ 1 \in Words /\ start_address \in Words /\ e - start_address \in Words /\ e - start_address \in Nat
    <2>1. e - start_address \in Nat /\ e - start_address <= max /\ start_address <= max /\ 1 <= max
        BY <1>4, <1>6
    <2> QED BY <1>4, <1>6, <2>1, SmallWord
<1>8. start_address + 5 <= e
    <2>1. start_address \div PAGE < e \div PAGE
        BY <1>4, <1>6, DivBelow
    <2>2. /\ start_address \div PAGE \in Nat /\ start_address = PAGE * (start_address \div PAGE) + 0
          /\ e \div PAGE \in Nat /\ e = PAGE * (e \div PAGE) + 0
        BY <1>4, <1>6, DivMod
    <2> DEFINE p == start_address \div PAGE
               q == e \div PAGE
    <2>3. p \in Nat /\ q \in Nat /\ p + 1 <= q /\ start_address = PAGE * p /\ e = PAGE * q
        BY <1>4, <1>6, <2>1, <2>2
    <2> HIDE DEF p, q
    <2>4. PAGE * (p + 1) <= PAGE * q /\ PAGE * (p + 1) = PAGE * p + PAGE
        BY <1>4, <2>3, TimesMonotonic
    <2> QED BY <1>4, <1>6, <2>3, <2>4
<1>9. blank \in HeapT(max)
    <2>1. << >> \in Seq(Words)
        BY EmptySeq
    <2>2. start_address \div PAGE - 1 .. e \div PAGE - 1 \subseteq Int
        OBVIOUS
    <2>3. [a \in start_address - PAGE .. max - 1 |-> junk] \in [start_address - PAGE .. max - 1 -> Words]
        BY <1>4
    <2> QED BY <1>7, <2>1, <2>2, <2>3 DEF HeapT
<1>10. Backed(blank)
    <2>1. ASSUME NEW x \in start_address .. e - 1
          PROVE  x \div PAGE \in start_address \div PAGE - 1 .. e \div PAGE - 1
        <3>1. x \in Nat /\ start_address <= x /\ x < e
            BY <1>4, <1>6
        <3>2. /\ start_address \div PAGE <= x \div PAGE /\ x \div PAGE < e \div PAGE
            BY <1>4, <1>6, <3>1, DivMonotonic, DivBelow
        <3>3. start_address \div PAGE \in Nat /\ x \div PAGE \in Nat /\ e \div PAGE \in Nat
            BY <1>4, <1>6, <3>1, DivMod
        <3> QED BY <3>2, <3>3
    <2> QED BY <2>1 DEF Backed
<1>11. blank.end = e /\ blank.index = << >> /\ blank.stop = "no" /\ \A x \in D : blank.mem[x] = junk
    BY DEF max
<1>12. DOMAIN blank.mem = D
    BY DEF max
<1> HIDE DEF blank
<1>13. /\ headed \in HeapT(max) /\ Same(headed, blank)
       /\ headed.mem[start_address] = HEAP_MAGIC /\ headed.mem[start_address + 1] = 1
       /\ headed.mem[start_address + 2] = e - start_address
       /\ \A x \in DOMAIN blank.mem : x \notin {start_address, start_address + 1, start_address + 2}
             => headed.mem[x] = blank.mem[x]
    <2>1. headed = Store(blank, start_address, <<HEAP_MAGIC, 1, e - start_address>>)
        BY DEF StoreHeader
    <2>2. start_address + 2 < blank.end /\ blank.end <= max /\ start_address <= start_address
        BY <1>4, <1>6, <1>8, <1>11
    <2> HIDE DEF headed
    <2> QED BY <1>4, <1>6, <1>7, <1>9, <1>10, <2>1, <2>2, StoreThree
<1> HIDE DEF headed
<1>14. h = [headed EXCEPT !.index = <<start_address>>]
    <2>1. headed.index = << >>
        BY <1>11, <1>13 DEF Same
    <2> QED BY <1>5, <2>1, InsertFirst DEF InsertHole
<1>15. /\ h \in HeapT(max) /\ h.mem = headed.mem /\ h.index = <<start_address>> /\ h.end = e
       /\ h.stop = "no" /\ h.framed = blank.framed
    <2>1. <<start_address>> \in Seq(Words)
        BY <1>7
    <2> QED BY <1>11, <1>13, <1>14, <2>1 DEF HeapT, Same
<1>16. Ground(h, max)
    <2>1. Backed(h)
        BY <1>10, <1>11, <1>15 DEF Backed
    <2>2. start_address - 2 \in D /\ start_address - 2 \notin {start_address, start_address + 1, start_address + 2}
        BY <1>4, <1>6 DEF max
    <2>3. h.mem[start_address - 2] # HEAP_MAGIC
        BY <1>4, <1>11, <1>12, <1>13, <1>15, <2>2
    <2> QED BY <1>6, <1>15, <2>1, <2>3 DEF Ground
<1>17. Top(h.mem, live) = start_address /\ Len(live) = 0 /\ live \in Seq(BlockT)
    BY <1>1, EmptySeq DEF Top
<1>18. Laid(h, live, max)
    <2>1. Stack(h.mem, live, h.end)
        BY <1>17 DEF Stack
    <2>2. Hole(h, start_address)
        BY <1>4, <1>8, <1>13, <1>15, Constants DEF Hole
    <2> QED BY <1>16, <1>17, <2>1, <2>2 DEF Laid
<1>19. Laid(h, live, s.max) /\ h.stop \in {"no", "oom"}
    BY <1>15, <1>18 DEF max
<1>20. Called(live, calling, s)
    BY <1>1, <1>3, <1>17 DEF Called
<1>21. Room(h, live, s)
    <2>1. ASSUME s.frees = "lifo" PROVE MIN_END <= h.end /\ start_address <= start_address + 0 * Bound(s)
        <3>1. MIN_END <= s.end /\ Bound(s) \in Nat
            BY <1>3, <2>1
        <3>2. 0 * Bound(s) = 0
            BY <3>1
        <3> QED BY <1>4, <1>15, <3>1, <3>2 DEF e
    <2> QED BY <1>17, <2>1 DEF Room
<1> QED BY <1>1, <1>15, <1>19, <1>20, <1>21 DEF HInv, Sound
-----------------------------------------------------------------------------
(* The steps *)

(* alloc gives out b: the bound on what is held stays. *)
LEMMA AllocRoom ==
    ASSUME NEW start \in Nat, NEW min \in Nat, NEW n \in Nat, NEW holds \in Nat, n < holds,
           NEW bound \in Nat, holds * bound + 5 <= min, NEW t \in Nat, t <= start + n * bound,
           NEW size \in Nat, size + 5 <= bound, NEW end \in Nat, start + min <= end
    PROVE  /\ t + (size + 5) <= start + (n + 1) * bound
           /\ end - t - (size + 5) >= 5
<1>1. (n + 1) * bound <= holds * bound /\ (n + 1) * bound = n * bound + bound
    BY TimesMonotonic
<1>2. n * bound \in Nat /\ holds * bound \in Nat
    OBVIOUS
<1> QED BY <1>1, <1>2

LEMMA AllocStep ==
    ASSUME NEW g, NEW lv, NEW c, NEW s, Sound(g, lv, c, s), g.stop = "no", Len(lv) < s.holds,
           NEW size \in Nat, NEW clear \in Nat, s.frees = "lifo" => size + 5 <= Bound(s),
           NEW i, NEW b, Answers(b, i, size, clear, g)
    PROVE  /\ Sound(Clear(Carve(size, FALSE, i, g).heap, b.ptr, clear), Append(lv, b), {}, s)
           /\ Clear(Carve(size, FALSE, i, g).heap, b.ptr, clear).stop = "no"
           /\ Clear(Carve(size, FALSE, i, g).heap, b.ptr, clear).end = g.end
           /\ b.ptr = Top(g.mem, lv) + 3 /\ size + 5 <= g.end - Top(g.mem, lv)
           /\ SameBelow(Clear(Carve(size, FALSE, i, g).heap, b.ptr, clear).mem, g.mem, Top(g.mem, lv), s.max)
<1> DEFINE t == Top(g.mem, lv)
           n == NewSize(g.end, t, size)
           w == Append(lv, b)
           k == Clear(Carve(size, FALSE, i, g).heap, b.ptr, clear)
<1>1. /\ s \in Scenarios /\ Plain(s) /\ Laid(g, lv, s.max) /\ Called(lv, c, s) /\ Room(g, lv, s)
    BY DEF Sound
<1>2. s.holds \in Nat
    BY <1>1, PlainMeans
<1>3. /\ t \in Nat /\ start_address \in Nat /\ g.end \in Nat /\ Len(lv) \in Nat /\ lv \in Seq(BlockT)
    BY <1>1, LaidTypes DEF Laid
<1>6. /\ size + 5 <= g.end - t /\ n \in Nat /\ b.ptr = t + 3 /\ AllocLaid(k, g, lv, b, n, s.max)
    <2> HIDE DEF t, n, k, w
    <2> DEFINE max == s.max
    <2>1. Laid(g, lv, max)
        BY <1>1
    <2> HIDE DEF max
    <2>2. /\ size + 5 <= g.end - Top(g.mem, lv)
          /\ NewSize(g.end, Top(g.mem, lv), size) \in Nat
          /\ b.ptr = Top(g.mem, lv) + 3
          /\ AllocLaid(Clear(Carve(size, FALSE, i, g).heap, b.ptr, clear), g, lv, b,
                       NewSize(g.end, Top(g.mem, lv), size), max)
        BY <2>1, CarveLaid
    <2> QED BY <2>2 DEF t, n, k, max
<1> HIDE DEF k
<1>13. b \in BlockT
    <2>1. t + 3 \in Nat
        BY <1>3
    <2> QED BY <1>6, <2>1, Zenon DEF Answers
<1>7. /\ Laid(k, w, s.max) /\ k.stop = "no" /\ k.end = g.end /\ Top(k.mem, w) = t + n
      /\ SameBelow(k.mem, g.mem, t, s.max)
    BY <1>6 DEF AllocLaid
<1>8. /\ Len(w) = Len(lv) + 1 /\ w[Len(lv) + 1] = b
      /\ \A j \in 1 .. Len(lv) : w[j] = lv[j]
    BY <1>3, <1>13, AppendProperties
<1>9. Called(w, {}, s)
    BY <1>1, <1>2, <1>3, <1>8 DEF Called
<1>10. ASSUME s.frees = "lifo"
       PROVE  /\ MIN_END <= k.end /\ t + n <= start_address + Len(w) * Bound(s)
              /\ \A j \in 1 .. Len(w) : HeadOf(w[j]) <= start_address + (j - 1) * Bound(s)
    <2>1. /\ MIN_END <= g.end /\ t <= start_address + Len(lv) * Bound(s)
          /\ \A j \in 1 .. Len(lv) : HeadOf(lv[j]) <= start_address + (j - 1) * Bound(s)
        BY <1>1, <1>10 DEF Room
    <2>2. /\ Bound(s) \in Nat /\ s.holds * Bound(s) + 5 <= HEAP_MIN_SIZE /\ size + 5 <= Bound(s)
        BY <1>1, <1>10, PlainMeans
    <2>3. HEAP_MIN_SIZE \in Nat /\ start_address + HEAP_MIN_SIZE <= g.end
        BY <2>1, Constants DEF MIN_END
    <2> HIDE DEF t
    <2>4. /\ t + (size + 5) <= start_address + (Len(lv) + 1) * Bound(s)
          /\ g.end - t - (size + 5) >= 5
        BY <1>2, <1>3, <2>1, <2>2, <2>3, AllocRoom
    <2>5. n = size + 5
        BY <1>2, <1>3, <2>4 DEF NewSize
    <2>6. ASSUME NEW j \in 1 .. Len(w) PROVE HeadOf(w[j]) <= start_address + (j - 1) * Bound(s)
        <3>1. CASE j \in 1 .. Len(lv)
            BY <1>8, <2>1, <3>1
        <3>2. CASE j = Len(lv) + 1
            <4>1. w[j] = b /\ j - 1 = Len(lv)
                BY <1>3, <1>8, <3>2
            <4>2. HeadOf(b) = (t + 3) - 3
                BY <1>6 DEF HeadOf, HDR
            <4>3. HeadOf(b) = t
                BY <1>3, <4>2
            <4> QED BY <2>1, <4>1, <4>3
        <3> QED BY <1>3, <1>8, <3>1, <3>2
    <2> QED BY <1>7, <1>8, <2>1, <2>4, <2>5, <2>6
<1>11. Room(k, w, s)
    BY <1>7, <1>10 DEF Room
<1>12. Sound(k, w, {}, s)
    BY <1>1, <1>7, <1>9, <1>11 DEF Sound
<1> QED BY <1>6, <1>7, <1>12 DEF k

LEMMA GrowStep ==
    ASSUME NEW g, NEW lv, NEW c, NEW s, Sound(g, lv, c, s), g.stop = "no", Len(lv) < s.holds,
           NEW r \in Of(s), NEW n \in Nat, n >= 5
    PROVE  /\ Sound(Grow(n, s.max, g), lv, {r}, s)
           /\ \/ Grow(n, s.max, g) = [g EXCEPT !.stop = "oom"]
              \/ /\ Grow(n, s.max, g).stop = "no" /\ Grow(n, s.max, g).end > g.end
                 /\ SameBelow(Grow(n, s.max, g).mem, g.mem, Top(g.mem, lv), s.max)
<1> DEFINE max == s.max
           k == Grow(n, max, g)
<1>1. /\ s \in Scenarios /\ Plain(s) /\ Laid(g, lv, max) /\ Called(lv, c, s) /\ Room(g, lv, s)
    BY DEF Sound
<1>2. s.holds \in Nat /\ Len(lv) \in Nat /\ g.end \in Nat /\ MIN_END \in Nat
    <2>1. s.holds \in Nat
        BY <1>1, PlainMeans
    <2>2. Len(lv) \in Nat /\ g.end \in Nat
        <3> HIDE DEF max
        <3> QED BY <1>1, LaidTypes
    <2>3. MIN_END \in Nat
        BY Start, Constants DEF MIN_END
    <2> QED BY <2>1, <2>2, <2>3
<1>3. Called(lv, {r}, s)
    BY <1>1, <1>2 DEF Called
<1> HIDE DEF max
<1>4. k = [g EXCEPT !.stop = "oom"] \/ GrownLaid(k, g, lv, max)
    BY <1>1, GrowLaid
<1> HIDE DEF k
<1>5. ASSUME k = [g EXCEPT !.stop = "oom"] PROVE Sound(k, lv, {r}, s)
    <2>1. g \in HeapT(max)
        BY <1>1 DEF Laid, Ground
    <2>2. /\ k \in HeapT(max) /\ k.mem = g.mem /\ k.index = g.index /\ k.end = g.end
          /\ k.framed = g.framed /\ k.stop = "oom"
        BY <1>5, <2>1 DEF HeapT
    <2>3. Laid(k, lv, max)
        BY <1>1, <2>2 DEF Laid, Ground, Hole, Backed
    <2>4. Room(k, lv, s)
        BY <1>1, <2>2 DEF Room
    <2> QED BY <1>1, <1>3, <2>2, <2>3, <2>4 DEF Sound, max
<1>6. ASSUME GrownLaid(k, g, lv, max) PROVE Sound(k, lv, {r}, s)
    <2>1. /\ Laid(k, lv, max) /\ k.stop = "no" /\ k.end > g.end /\ Top(k.mem, lv) = Top(g.mem, lv)
        BY <1>6 DEF GrownLaid
    <2>2. k.end \in Nat
        BY <2>1, LaidTypes
    <2>3. MIN_END <= g.end => MIN_END <= k.end
        BY <1>2, <2>1, <2>2
    <2>4. Room(k, lv, s)
        BY <1>1, <2>1, <2>3 DEF Room
    <2> QED BY <1>1, <1>3, <2>1, <2>4 DEF Sound, max
<1>7. GrownLaid(k, g, lv, max) =>
          k.stop = "no" /\ k.end > g.end /\ SameBelow(k.mem, g.mem, Top(g.mem, lv), max)
    BY DEF GrownLaid
<1> QED BY <1>4, <1>5, <1>6, <1>7 DEF k, max

LEMMA FreeRoom ==
    ASSUME NEW n \in Nat, NEW holds \in Nat, n <= holds, NEW bound \in Nat,
           NEW min \in Nat, holds * bound + 5 <= min, NEW start \in Nat,
           NEW t \in Nat, t <= start + n * bound
    PROVE  t + 5 <= start + min
<1>1. n * bound <= holds * bound
    BY TimesMonotonic
<1>2. n * bound \in Nat /\ holds * bound \in Nat
    OBVIOUS
<1> QED BY <1>1, <1>2

LEMMA FreeStep ==
    ASSUME NEW g, NEW lv, NEW s, Sound(g, lv, {}, s), g.stop = "no", Len(lv) > 0,
           s.frees = "lifo", NEW junk \in Junk
    PROVE  /\ Sound(free(lv[Len(lv)].ptr, junk, g), RemoveAt(lv, Len(lv)), {}, s)
           /\ FreeLaid(free(lv[Len(lv)].ptr, junk, g), g, lv, s.max)
           /\ MIN_END <= g.end
<1> DEFINE max == s.max
           k == free(lv[Len(lv)].ptr, junk, g)
           w == RemoveAt(lv, Len(lv))
           t == Top(g.mem, lv)
           bound == Bound(s)
<1>1. /\ s \in Scenarios /\ Plain(s) /\ Laid(g, lv, max) /\ Called(lv, {}, s) /\ Room(g, lv, s)
    BY DEF Sound
<1>2. /\ s.holds \in Nat /\ bound \in Nat /\ s.holds * bound + 5 <= HEAP_MIN_SIZE
      /\ 2 * PAGE <= HEAP_MIN_SIZE
    BY <1>1, PlainMeans
<1>3. Len(lv) \in Nat /\ t \in Nat /\ start_address \in Nat /\ lv \in Seq(BlockT)
    BY <1>1, LaidTypes DEF Laid
<1>4. /\ MIN_END <= g.end /\ t <= start_address + Len(lv) * bound
      /\ \A i \in 1 .. Len(lv) : HeadOf(lv[i]) <= start_address + (i - 1) * bound
    BY <1>1 DEF Room
<1>5. Len(lv) <= s.holds
    BY <1>1 DEF Called
<1> HIDE DEF max, t, bound
<1>6. t + 5 <= MIN_END
    <2> DEFINE n == Len(lv)
               holds == s.holds
               min == HEAP_MIN_SIZE
    <2>1. /\ n \in Nat /\ holds \in Nat /\ n <= holds /\ min \in Nat /\ holds * bound + 5 <= min
          /\ t <= start_address + n * bound
        BY <1>2, <1>3, <1>4, <1>5, Constants
    <2> HIDE DEF n, holds, min
    <2>2. t + 5 <= start_address + min
        BY <1>2, <1>3, <2>1, FreeRoom
    <2> QED BY <2>2 DEF min, MIN_END
<1>7. FreeLaid(k, g, lv, max)
    <2>1. Top(g.mem, lv) + 5 <= MIN_END
        BY <1>6 DEF t
    <2> HIDE DEF k
    <2>2. FreeLaid(free(lv[Len(lv)].ptr, junk, g), g, lv, max)
        BY <1>1, <1>2, <1>4, <2>1, GiveBackLaid
    <2> QED BY <2>2 DEF k
<1> HIDE DEF k
<1>8. /\ Laid(k, w, max) /\ k.stop = "no" /\ k.end = MIN_END /\ Top(k.mem, w) = HeadOf(lv[Len(lv)])
    BY <1>7 DEF FreeLaid
<1>9. Len(w) = Len(lv) - 1 /\ \A i \in 1 .. Len(lv) - 1 : w[i] = lv[i]
    BY <1>3, RemoveLast
<1>10. Called(w, {}, s)
    BY <1>2, <1>3, <1>5, <1>9 DEF Called
<1> HIDE DEF w
<1>11. Room(k, w, s)
    <2>1. MIN_END <= k.end
        <3>1. MIN_END \in Nat
            BY Start, Constants DEF MIN_END
        <3> QED BY <1>8, <3>1
    <2>2. Top(k.mem, w) <= start_address + Len(w) * bound
        <3>1. Len(lv) \in 1 .. Len(lv)
            BY <1>3
        <3> QED BY <1>4, <1>8, <1>9, <3>1
    <2>3. ASSUME NEW i \in 1 .. Len(w) PROVE HeadOf(w[i]) <= start_address + (i - 1) * bound
        <3>1. i \in 1 .. Len(lv) /\ w[i] = lv[i]
            BY <1>3, <1>9
        <3> QED BY <1>4, <3>1
    <2> QED BY <2>1, <2>2, <2>3 DEF Room, bound
<1>12. Sound(k, w, {}, s)
    BY <1>1, <1>8, <1>10, <1>11 DEF Sound, max
<1> QED BY <1>4, <1>7, <1>12 DEF k, w, max

LEMMA StoreStep ==
    ASSUME NEW g, NEW lv, NEW c, NEW s, Sound(g, lv, c, s), NEW i \in 1 .. Len(lv), NEW d \in Words
    PROVE  /\ Sound(Filled(g, lv[i], lv[i].size, d), lv, c, s)
           /\ Filled(g, lv[i], lv[i].size, d).end = g.end
           /\ Filled(g, lv[i], lv[i].size, d).stop = g.stop
<1> DEFINE max == s.max
           n == lv[i].size
           k == Filled(g, lv[i], n, d)
<1>1. /\ s \in Scenarios /\ Plain(s) /\ Laid(g, lv, max) /\ Called(lv, c, s) /\ Room(g, lv, s)
      /\ g.stop \in {"no", "oom"}
    BY DEF Sound
<1>2. n \in Nat /\ n <= n /\ n <= lv[i].size
    <2>1. n \in Nat
        BY <1>1, LaidTypes
    <2>2. n <= n
        BY <2>1
    <2> QED BY <2>1, <2>2
<1> HIDE DEF max, n
<1>3. /\ Laid(k, lv, max) /\ k.end = g.end /\ k.stop = g.stop
      /\ Top(k.mem, lv) = Top(g.mem, lv)
    <2> HIDE DEF k
    <2>1. /\ Laid(Filled(g, lv[i], n, d), lv, max)
          /\ Filled(g, lv[i], n, d).end = g.end /\ Filled(g, lv[i], n, d).stop = g.stop
          /\ Top(Filled(g, lv[i], n, d).mem, lv) = Top(g.mem, lv)
        BY <1>1, <1>2, FillMeans
    <2> QED BY <2>1 DEF k
<1> HIDE DEF k
<1>4. Room(k, lv, s)
    BY <1>1, <1>3 DEF Room
<1>5. Sound(k, lv, c, s)
    BY <1>1, <1>3, <1>4 DEF Sound, max
<1> QED BY <1>3, <1>5 DEF k, n

LEMMA RequestedMeans ==
    ASSUME HInv, NEW r \in Requested
    PROVE  r \in Of(scenario) /\ Len(live) < scenario.holds
<1>1. Called(live, calling, scenario)
    BY DEF HInv, Sound
<1>2. CASE calling # {}
    BY <1>1, <1>2 DEF Requested, Called
<1>3. CASE calling = {}
    <2>1. Len(live) < scenario.holds /\ r \in Asked
        BY <1>3 DEF Requested
    <2>2. r \in Of(scenario)
        <3>1. CASE Len(live) < Len(scenario.script)
            <4>1. scenario.script \in Seq(SUBSET Request) /\ live \in Seq(BlockT)
                BY PlainMeans DEF HInv, Sound, Laid
            <4>2. Len(live) + 1 \in DOMAIN scenario.script
                BY <3>1, <4>1, LenProperties
            <4>3. r \in scenario.script[Len(live) + 1]
                BY <2>1, <3>1 DEF Asked
            <4> QED BY <4>2, <4>3 DEF Of
        <3>2. CASE ~ (Len(live) < Len(scenario.script))
            BY <2>1, <3>2 DEF Asked, Of
        <3> QED BY <3>1, <3>2
    <2> QED BY <2>1, <2>2
<1> QED BY <1>2, <1>3

LEMMA MayFreeMeans ==
    ASSUME HInv, NEW i \in MayFree
    PROVE  scenario.frees = "lifo" /\ Len(live) > 0 /\ i = Len(live)
<1>1. live \in Seq(BlockT) /\ Len(live) \in Nat /\ DOMAIN live = 1 .. Len(live)
    BY LenProperties DEF HInv, Sound, Laid
<1>2. scenario.frees \in {"never", "lifo"}
    BY PlainMeans DEF HInv, Sound
<1>3. scenario.frees # "never"
    BY DEF MayFree
<1>4. scenario.frees = "lifo"
    BY <1>2, <1>3
<1> DEFINE own == {j \in DOMAIN live : ~ live[j].align}
<1>5. own = 1 .. Len(live)
    <2>1. ASSUME NEW j \in 1 .. Len(live) PROVE live[j].align = FALSE
        <3>1. live[j] \in BlockT
            BY <1>1
        <3> QED BY <3>1 DEF BlockT
    <2> QED BY <1>1, <2>1
<1>6. i \in IF own = {} THEN {} ELSE {Max(own)}
    BY <1>4 DEF MayFree
<1> HIDE DEF own
<1>7. own # {} /\ i = Max(own)
    BY <1>6
<1>8. Len(live) > 0
    BY <1>1, <1>5, <1>7
<1>9. \E x \in own : \A y \in own : x >= y
    <2>1. Len(live) \in own /\ \A y \in own : Len(live) >= y
        BY <1>1, <1>5, <1>8
    <2> QED BY <2>1
<1>10. i \in own /\ \A y \in own : i >= y
    BY <1>7, <1>9 DEF Max
<1>11. i = Len(live)
    <2> DEFINE n == Len(live)
    <2>1. n \in Nat /\ n \in 1 .. n /\ own = 1 .. n
        BY <1>1, <1>5, <1>8
    <2> HIDE DEF n
    <2>2. i \in 1 .. n /\ i >= n
        BY <1>10, <2>1
    <2>3. i = n
        BY <2>1, <2>2
    <2> QED BY <2>3 DEF n
<1> QED BY <1>4, <1>8, <1>11

(* What the four kinds of steps do to the heap and to the client's blocks. *)
GaveOut ==
    \E b \in BlockT :
        /\ live' = Append(live, b)
        /\ b.ptr = Top(h.mem, live) + 3 /\ b.size + 5 <= h.end - Top(h.mem, live)
        /\ h'.stop = "no" /\ h'.end = h.end
        /\ SameBelow(h'.mem, h.mem, Top(h.mem, live), scenario.max)

CouldNotGrow == live' = live /\ h' = [h EXCEPT !.stop = "oom"]

Grew == /\ live' = live /\ h'.stop = "no" /\ h'.end > h.end
        /\ SameBelow(h'.mem, h.mem, Top(h.mem, live), scenario.max)

TookBack == /\ Len(live) > 0 /\ live' = RemoveAt(live, Len(live))
            /\ FreeLaid(h', h, live, scenario.max) /\ MIN_END <= h.end

Wrote == live' = live /\ calling' = {} /\ h'.end = h.end /\ h'.stop = h.stop

Steps == GaveOut \/ CouldNotGrow \/ Grew \/ TookBack \/ Wrote

LEMMA AllocMeans ==
    ASSUME HInv, NEW r \in Requested, Alloc(r)
    PROVE  HInv' /\ GaveOut /\ h.stop = "no"
<1> DEFINE size == r.size
           clear == r.clear
           i == Fitting(r)
           p == Carve(size, FALSE, i, h).ptr
           b == [ptr |-> p, size |-> size, align |-> FALSE, clear |-> clear]
           k == Clear(Carve(size, FALSE, i, h).heap, p, clear)
<1>1. r \in Of(scenario) /\ Len(live) < scenario.holds
    BY RequestedMeans
<1>2. scenario \in Scenarios /\ Plain(scenario)
    BY DEF HInv, Sound
<1>3. /\ size \in Nat /\ clear \in Nat /\ clear <= size /\ r.align = FALSE
      /\ scenario.frees = "lifo" => size + 5 <= Bound(scenario)
    BY <1>1, <1>2, PlainMeans
<1>4. /\ h.stop = "no" /\ i # 0 /\ h' = k /\ calling' = {} /\ scenario' = scenario
      /\ live' = IF h'.stop = "no" THEN Append(live, b) ELSE live
    BY <1>3 DEF Alloc
<1>5. i = find_smallest_hole(size + HDR + FTR, FALSE, h)
    BY <1>3 DEF Fitting
<1> HIDE DEF size, clear, i, p
<1>6. b.ptr = p /\ b.size = size /\ (p \in Nat => b \in BlockT)
    BY <1>3 DEF BlockT
<1>7. Answers(b, i, size, clear, h)
    BY <1>3, <1>4, <1>5, <1>6 DEF Answers, p
<1> HIDE DEF b
<1>8. k = Clear(Carve(size, FALSE, i, h).heap, b.ptr, clear)
    BY <1>6
<1> HIDE DEF k
<1>9. /\ Sound(k, Append(live, b), {}, scenario) /\ k.stop = "no" /\ k.end = h.end
      /\ b.ptr = Top(h.mem, live) + 3 /\ size + 5 <= h.end - Top(h.mem, live)
      /\ SameBelow(k.mem, h.mem, Top(h.mem, live), scenario.max)
    <2>1. Sound(h, live, calling, scenario)
        BY DEF HInv
    <2>2. /\ Sound(Clear(Carve(size, FALSE, i, h).heap, b.ptr, clear), Append(live, b), {}, scenario)
          /\ Clear(Carve(size, FALSE, i, h).heap, b.ptr, clear).stop = "no"
          /\ Clear(Carve(size, FALSE, i, h).heap, b.ptr, clear).end = h.end
          /\ b.ptr = Top(h.mem, live) + 3 /\ size + 5 <= h.end - Top(h.mem, live)
          /\ SameBelow(Clear(Carve(size, FALSE, i, h).heap, b.ptr, clear).mem, h.mem,
                       Top(h.mem, live), scenario.max)
        BY <1>1, <1>3, <1>4, <1>7, <2>1, AllocStep
    <2> QED BY <1>8, <2>2
<1>10. live' = Append(live, b)
    BY <1>4, <1>9
<1>11. HInv'
    BY <1>4, <1>9, <1>10 DEF HInv
<1>12. b \in BlockT
    <2>1. Top(h.mem, live) \in Nat
        BY LaidTypes DEF HInv, Sound
    <2>2. Top(h.mem, live) + 3 \in Nat
        BY <2>1
    <2> QED BY <1>6, <1>9, <2>2
<1>13. GaveOut
    BY <1>4, <1>6, <1>9, <1>10, <1>12 DEF GaveOut
<1> QED BY <1>4, <1>11, <1>13

LEMMA AllocGrowsMeans ==
    ASSUME HInv, NEW r \in Requested, AllocGrows(r)
    PROVE  HInv' /\ (CouldNotGrow \/ Grew) /\ h.stop = "no"
<1> DEFINE n == r.size + HDR + FTR
           k == Grow(n, scenario.max, h)
<1>1. r \in Of(scenario) /\ Len(live) < scenario.holds
    BY RequestedMeans
<1>2. scenario \in Scenarios /\ Plain(scenario)
    BY DEF HInv, Sound
<1>3. n \in Nat /\ n >= 5
    <2>1. r.size \in Nat
        BY <1>1, <1>2, PlainMeans
    <2> QED BY <2>1, Constants
<1>4. h.stop = "no" /\ h' = k /\ calling' = {r} /\ live' = live /\ scenario' = scenario
    BY DEF AllocGrows
<1> HIDE DEF n, k
<1>5. /\ Sound(k, live, {r}, scenario)
      /\ \/ k = [h EXCEPT !.stop = "oom"]
         \/ k.stop = "no" /\ k.end > h.end /\ SameBelow(k.mem, h.mem, Top(h.mem, live), scenario.max)
    <2>1. Sound(h, live, calling, scenario)
        BY DEF HInv
    <2>2. /\ Sound(Grow(n, scenario.max, h), live, {r}, scenario)
          /\ \/ Grow(n, scenario.max, h) = [h EXCEPT !.stop = "oom"]
             \/ /\ Grow(n, scenario.max, h).stop = "no" /\ Grow(n, scenario.max, h).end > h.end
                /\ SameBelow(Grow(n, scenario.max, h).mem, h.mem, Top(h.mem, live), scenario.max)
        BY <1>1, <1>3, <1>4, <2>1, GrowStep
    <2> QED BY <2>2 DEF k
<1>6. HInv'
    BY <1>4, <1>5 DEF HInv
<1>7. CouldNotGrow \/ Grew
    BY <1>4, <1>5 DEF CouldNotGrow, Grew
<1> QED BY <1>4, <1>6, <1>7

LEMMA FreeTakesBack ==
    ASSUME HInv, NEW i \in MayFree, NEW junk \in Junk, Free(i, junk)
    PROVE  HInv' /\ TookBack /\ h.stop = "no"
<1> DEFINE k == free(live[Len(live)].ptr, junk, h)
           w == RemoveAt(live, Len(live))
<1>1. scenario.frees = "lifo" /\ Len(live) > 0 /\ i = Len(live)
    BY MayFreeMeans
<1>2. /\ h.stop = "no" /\ calling = {} /\ h' = k /\ calling' = calling /\ scenario' = scenario
      /\ live' = IF k.stop = "no" THEN w ELSE live
    BY <1>1 DEF Free
<1> HIDE DEF k, w
<1>3. Sound(k, w, {}, scenario) /\ FreeLaid(k, h, live, scenario.max) /\ MIN_END <= h.end
    <2>1. Sound(h, live, {}, scenario)
        BY <1>2 DEF HInv
    <2>2. /\ Sound(free(live[Len(live)].ptr, junk, h), RemoveAt(live, Len(live)), {}, scenario)
          /\ FreeLaid(free(live[Len(live)].ptr, junk, h), h, live, scenario.max)
          /\ MIN_END <= h.end
        BY <1>1, <1>2, <2>1, FreeStep
    <2> QED BY <2>2 DEF k, w
<1>4. k.stop = "no"
    BY <1>3 DEF FreeLaid
<1>5. live' = w
    BY <1>2, <1>4
<1>6. HInv'
    BY <1>2, <1>3, <1>5 DEF HInv
<1>7. TookBack
    BY <1>1, <1>2, <1>3, <1>5 DEF TookBack, w
<1> QED BY <1>2, <1>6, <1>7

LEMMA ClientStoreMeans ==
    ASSUME HInv, NEW i \in DOMAIN live, NEW d \in Data, ClientStore(i, d)
    PROVE  HInv' /\ Wrote /\ h.stop = "no"
<1> DEFINE k == Filled(h, live[i], live[i].size, d)
<1>1. i \in 1 .. Len(live)
    BY LenProperties DEF HInv, Sound, Laid
<1>2. d \in Words
    BY Constants
<1>3. /\ h.stop = "no" /\ calling = {} /\ h' = k
      /\ live' = live /\ calling' = calling /\ scenario' = scenario
    BY DEF ClientStore, Filled
<1> HIDE DEF k
<1>4. Sound(k, live, calling, scenario) /\ k.end = h.end /\ k.stop = h.stop
    <2>1. Sound(h, live, calling, scenario)
        BY DEF HInv
    <2> QED BY <1>1, <1>2, <2>1, StoreStep DEF k
<1>5. HInv'
    BY <1>3, <1>4 DEF HInv
<1>6. Wrote
    BY <1>3, <1>4 DEF Wrote
<1> QED BY <1>3, <1>5, <1>6

LEMMA StepMeans ==
    ASSUME HInv, Next
    PROVE  HInv' /\ Steps /\ h.stop = "no"
<1>1. ASSUME NEW r \in Requested, Alloc(r) PROVE HInv' /\ Steps /\ h.stop = "no"
    BY <1>1, AllocMeans DEF Steps
<1>2. ASSUME NEW r \in Requested, AllocGrows(r) PROVE HInv' /\ Steps /\ h.stop = "no"
    BY <1>2, AllocGrowsMeans DEF Steps
<1>3. ASSUME NEW i \in MayFree, NEW junk \in Junk, Free(i, junk)
      PROVE  HInv' /\ Steps /\ h.stop = "no"
    BY <1>3, FreeTakesBack DEF Steps
<1>4. ASSUME NEW i \in DOMAIN live, NEW d \in Data, ClientStore(i, d)
      PROVE  HInv' /\ Steps /\ h.stop = "no"
    BY <1>4, ClientStoreMeans DEF Steps
<1> QED BY <1>1, <1>2, <1>3, <1>4 DEF Next

LEMMA Inductive ==
    ASSUME HInv, [Next]_vars
    PROVE  HInv'
<1>1. CASE Next
    BY <1>1, StepMeans
<1>2. CASE UNCHANGED vars
    BY <1>2 DEF vars, HInv
<1> QED BY <1>1, <1>2

(* A client that uses the heap as a stack finds it laid out as one: what it *)
(* holds in order from start_address, one hole or none behind.              *)
THEOREM HeapIsAStack == Spec /\ Plain(scenario) => []HInv
<1>1. Init /\ Plain(scenario) => HInv
    BY InitHeap
<1>2. HInv /\ [Next]_vars => HInv'
    BY Inductive
<1> QED BY <1>1, <1>2, PTL DEF Spec
-----------------------------------------------------------------------------
(* What the layout says about the heap *)

LEMMA Layout ==
    ASSUME HInv
    PROVE  /\ Laid(h, live, scenario.max) /\ Len(live) \in Nat /\ DOMAIN live = 1 .. Len(live)
           /\ h.end \in Nat /\ start_address \in Nat /\ start_address < h.end
           /\ Top(h.mem, live) \in Nat /\ start_address <= Top(h.mem, live) /\ Top(h.mem, live) <= h.end
<1>1. Laid(h, live, scenario.max)
    BY DEF HInv, Sound
<1>2. /\ Len(live) \in Nat /\ h.end \in Nat /\ start_address \in Nat
      /\ Top(h.mem, live) \in Nat /\ start_address <= Top(h.mem, live) /\ Top(h.mem, live) <= h.end
    BY <1>1, LaidTypes
<1>3. start_address < h.end
    BY <1>1 DEF Laid, Ground
<1>4. DOMAIN live = 1 .. Len(live)
    BY <1>1, LenProperties DEF Laid
<1> QED BY <1>1, <1>2, <1>3, <1>4

(* A word of the heap is read as it is. *)
LEMMA Reads ==
    ASSUME HInv, NEW x \in Nat, start_address - PAGE <= x, x < h.end
    PROVE  Word(h, x) = h.mem[x]
<1>1. Ground(h, scenario.max)
    BY Layout DEF Laid
<1>2. /\ scenario.max \in Nat /\ h.end \in Nat /\ h.end <= scenario.max
      /\ DOMAIN h.mem = start_address - PAGE .. scenario.max - 1
    BY <1>1, GroundTypes
<1>3. x \in start_address - PAGE .. scenario.max - 1
    <2> DEFINE max == scenario.max
    <2>1. max \in Nat /\ h.end <= max
        BY <1>2
    <2> HIDE DEF max
    <2>2. x \in start_address - PAGE .. max - 1
        BY <1>2, <2>1, Start, Constants
    <2> QED BY <2>2 DEF max
<1> QED BY <1>2, <1>3 DEF Word

OneHole(t) == /\ h.index = <<t>> /\ Holes = {t} /\ t + 5 <= h.end
              /\ Magic(h, t) = HEAP_MAGIC /\ IsHole(h, t) = 1 /\ Size(h, t) = h.end - t

LEMMA HoleMeans ==
    ASSUME HInv
    PROVE  \/ h.index = << >> /\ Holes = {} /\ Top(h.mem, live) = h.end
           \/ OneHole(Top(h.mem, live))
<1> DEFINE t == Top(h.mem, live)
<1>1. /\ t \in Nat /\ start_address \in Nat /\ start_address <= t /\ h.end \in Nat
      /\ Hole(h, t) /\ PAGE \in Nat
    BY Layout, Constants DEF Laid
<1> HIDE DEF t
<1>2. CASE h.index = << >> /\ t = h.end
    <2>1. Holes = {}
        BY <1>2 DEF Holes, ToSet
    <2> QED BY <1>2, <2>1 DEF t
<1>3. CASE /\ h.index = <<t>> /\ t + HDR + FTR <= h.end
           /\ h.mem[t] = HEAP_MAGIC /\ h.mem[t + 1] = 1 /\ h.mem[t + 2] = h.end - t
    <2>1. Holes = {t}
        <3>1. DOMAIN h.index = {1} /\ h.index[1] = t
            BY <1>3
        <3> QED BY <3>1 DEF Holes, ToSet
    <2>2. t + 5 <= h.end
        BY <1>1, <1>3, Constants
    <2>3. \A x \in {t, t + 1, t + 2} : Word(h, x) = h.mem[x]
        <3>1. \A x \in {t, t + 1, t + 2} : x \in Nat /\ start_address - PAGE <= x /\ x < h.end
            BY <1>1, <2>2
        <3> QED BY <3>1, Reads
    <2> QED BY <1>3, <2>1, <2>2, <2>3 DEF OneHole, Magic, IsHole, Size, t
<1> QED BY <1>1, <1>2, <1>3 DEF Hole

(* What is true of the client's block number i. *)
HeldBlock(i) ==
    LET a == HeadOf(live[i])
    IN  /\ a \in Nat /\ a \in Blocks /\ a < Top(h.mem, live) /\ a = live[i].ptr - HDR
        /\ Size(h, a) \in Nat /\ Size(h, a) >= live[i].size + HDR + FTR /\ Size(h, a) >= 5
        /\ End(a) = EndOf(h.mem, live[i]) /\ End(a) <= Top(h.mem, live)
        /\ Magic(h, a) = HEAP_MAGIC /\ IsHole(h, a) = 0
        /\ Magic(h, End(a) - FTR) = HEAP_MAGIC /\ Header(h, End(a) - FTR) = a
        /\ a = IF i = 1 THEN start_address ELSE End(HeadOf(live[i - 1]))
        /\ i = Len(live) => End(a) = Top(h.mem, live)

LEMMA HeldMeans ==
    ASSUME HInv, NEW i \in 1 .. Len(live)
    PROVE  HeldBlock(i)
<1> DEFINE m == h.mem
           t == Top(m, live)
<1>1. /\ t \in Nat /\ start_address \in Nat /\ h.end \in Nat /\ Len(live) \in Nat
      /\ PAGE \in Nat /\ HDR = 3 /\ FTR = 2 /\ t <= h.end
    BY Layout, Constants
<1>2. ASSUME NEW j \in 1 .. Len(live)
      PROVE  /\ HeadOf(live[j]) \in Nat /\ EndOf(m, live[j]) \in Nat /\ live[j].size \in Nat
             /\ start_address <= HeadOf(live[j]) /\ HeadOf(live[j]) + 5 <= EndOf(m, live[j])
             /\ EndOf(m, live[j]) <= t /\ Block(m, live[j])
             /\ Size(h, HeadOf(live[j])) = m[HeadOf(live[j]) + 2]
             /\ End(HeadOf(live[j])) = EndOf(m, live[j])
    <2>1. Laid(h, live, scenario.max)
        BY Layout
    <2>2. /\ HeadOf(live[j]) \in Nat /\ EndOf(m, live[j]) \in Nat /\ live[j].size \in Nat
          /\ start_address <= HeadOf(live[j]) /\ HeadOf(live[j]) + 5 <= EndOf(m, live[j])
          /\ EndOf(m, live[j]) <= t
        BY <2>1, LaidTypes
    <2>3. Block(m, live[j])
        BY <2>1 DEF Laid, Stack
    <2> DEFINE a == HeadOf(live[j])
               q == EndOf(m, live[j])
    <2>4. a + 2 \in Nat /\ start_address - PAGE <= a + 2 /\ a + 2 < h.end
        <3> HIDE DEF a, t, q
        <3>1. a \in Nat /\ start_address <= a /\ a + 5 <= q /\ q <= t /\ q \in Nat
            BY <2>2 DEF a, q
        <3> QED BY <1>1, <3>1
    <2>5. Size(h, a) = m[a + 2]
        BY <2>4, Reads DEF Size
    <2> QED BY <2>2, <2>3, <2>5 DEF End, EndOf
<1> DEFINE a == HeadOf(live[i])
           q == EndOf(m, live[i])
           z == m[a + 2]
<1>3. /\ a \in Nat /\ q \in Nat /\ start_address <= a /\ a + 5 <= q /\ q <= t
      /\ Size(h, a) = z /\ End(a) = q /\ q = a + z
    BY <1>2 DEF EndOf
<1>4. Block(m, live[i])
    BY <1>2
<1>5. /\ m[a] = HEAP_MAGIC /\ m[a + 1] = 0 /\ m[q - 2] = HEAP_MAGIC /\ m[q - 1] = a
      /\ live[i].size + HDR + FTR <= z
    BY <1>4 DEF Block
<1>6. a \in Blocks
    BY Layout DEF Blocks, HeadOf
<1>7. z \in Nat
    <2>1. Laid(h, live, scenario.max)
        BY Layout
    <2>2. Ground(h, scenario.max) /\ scenario.max \in Nat /\ h.end <= scenario.max
        BY <2>1, LaidTypes DEF Laid
    <2> DEFINE max == scenario.max
    <2>3. max \in Nat /\ h.end <= max /\ Ground(h, max)
        BY <2>2
    <2> HIDE DEF max, a, q, t, z
    <2>4. a + 2 \in start_address - PAGE .. max - 1
        BY <1>1, <1>3, <2>3
    <2>5. m[a + 2] \in Words
        BY <2>3, <2>4, GroundTypes
    <2> QED BY <2>5, Constants DEF z, Words
<1>8. z >= 5
    <2> HIDE DEF a, q, z
    <2> QED BY <1>3, <1>7
<1>9. \A x \in {a, a + 1, q - 2, q - 1} : Word(h, x) = m[x]
    <2>1. \A x \in {a, a + 1, q - 2, q - 1} : x \in Nat /\ start_address - PAGE <= x /\ x < h.end
        <3> HIDE DEF a, q, t
        <3> QED BY <1>1, <1>3, SMTT(30)
    <2> HIDE DEF a, q
    <2> QED BY <2>1, Reads
<1>10. (q - 2) + 1 = q - 1
    <2> HIDE DEF q
    <2> QED BY <1>3
<1>11. Magic(h, a) = HEAP_MAGIC /\ IsHole(h, a) = 0 /\ Magic(h, q - FTR) = HEAP_MAGIC /\ Header(h, q - FTR) = a
    <2> HIDE DEF q, a
    <2> QED BY <1>1, <1>5, <1>9, <1>10 DEF Magic, IsHole, Header
<1>12. a = IF i = 1 THEN start_address ELSE End(HeadOf(live[i - 1]))
    <2>1. a = IF i = 1 THEN start_address ELSE EndOf(m, live[i - 1])
        BY Layout DEF Laid, Stack
    <2>2. CASE i = 1
        BY <2>1, <2>2
    <2>3. CASE i # 1
        <3>1. i - 1 \in 1 .. Len(live)
            BY <1>1, <2>3
        <3> QED BY <1>2, <2>1, <2>3, <3>1
    <2> QED BY <2>2, <2>3
<1>13. i = Len(live) => q = t
    <2>1. Len(live) # 0
        BY <1>1
    <2> QED BY <2>1 DEF Top
<1>14. a < t
    <2> HIDE DEF a, q, t
    <2> QED BY <1>1, <1>3
<1>15. a = live[i].ptr - HDR
    BY DEF HeadOf
<1> HIDE DEF a, q, z, t
<1>16. /\ Size(h, a) \in Nat /\ Size(h, a) >= live[i].size + HDR + FTR /\ Size(h, a) >= 5
    <2>1. live[i].size \in Nat
        BY <1>2
    <2> QED BY <1>1, <1>3, <1>5, <1>7, <1>8, <2>1
<1>17. End(a) = q /\ q <= t
    BY <1>3
<1> QED BY <1>3, <1>6, <1>11, <1>12, <1>13, <1>14, <1>15, <1>16, <1>17 DEF HeldBlock, a, q, t

(* Every head is the hole's or a block's. *)
LEMMA HeadsAre ==
    ASSUME HInv, NEW a \in Blocks
    PROVE  \E i \in 1 .. Len(live) : a = HeadOf(live[i])
BY Layout DEF Blocks, HeadOf

LEMMA TilesHold == ASSUME HInv PROVE HeapTiled
<1> DEFINE n == Len(live)
           t == Top(h.mem, live)
<1>1. /\ n \in Nat /\ t \in Nat /\ start_address \in Nat /\ h.end \in Nat /\ DOMAIN live = 1 .. n
      /\ start_address < h.end /\ HDR + FTR = 5 /\ t <= h.end
    BY Layout, Constants
<1>2. \A i \in 1 .. n : HeldBlock(i)
    BY HeldMeans
<1>3. \/ h.index = << >> /\ Holes = {} /\ t = h.end
      \/ OneHole(t)
    BY HoleMeans
<1> HIDE DEF t, n
<1>4. Holes \subseteq {t}
    BY <1>3 DEF OneHole
<1>5. Holes \cap Blocks = {}
    <2>1. ASSUME NEW a \in Blocks PROVE a # t
        <3>1. PICK i \in 1 .. n : a = HeadOf(live[i])
            BY HeadsAre DEF n
        <3>2. a \in Nat /\ a < t
            BY <1>2, <3>1 DEF HeldBlock, t
        <3> QED BY <1>1, <3>2
    <2> QED BY <1>4, <2>1
<1>6. Len(h.index) = Cardinality(Holes)
    <2>1. Cardinality({}) = 0 /\ Cardinality({t}) = 1
        BY FS_EmptySet, FS_Singleton
    <2>2. Len(<< >>) = 0 /\ Len(<<t>>) = 1
        OBVIOUS
    <2>3. CASE h.index = << >> /\ Holes = {}
        BY <2>1, <2>2, <2>3
    <2>4. CASE OneHole(t)
        <3>1. h.index = <<t>> /\ Holes = {t}
            BY <2>4 DEF OneHole
        <3> QED BY <2>1, <2>2, <3>1
    <2> QED BY <1>3, <2>3, <2>4
<1>7. start_address \in Holes \cup Blocks
    <2>1. CASE n = 0
        <3>1. t = start_address
            BY <2>1 DEF t, n, Top
        <3> QED BY <1>1, <1>3, <3>1 DEF OneHole
    <2>2. CASE n # 0
        <3>1. 1 \in 1 .. n
            BY <1>1, <2>2
        <3> QED BY <1>2, <3>1 DEF HeldBlock
    <2> QED BY <2>1, <2>2
<1>8. t \in Holes \cup {h.end}
    BY <1>3 DEF OneHole
<1>9. ASSUME NEW a \in Holes \cup Blocks
      PROVE  /\ Size(h, a) >= HDR + FTR
             /\ End(a) \in Holes \cup Blocks \cup {h.end}
             /\ a = start_address \/ \E b \in Holes \cup Blocks : End(b) = a
    <2>1. CASE a \in Holes
        <3>1. a = t /\ OneHole(t)
            BY <1>3, <2>1 DEF OneHole
        <3>2. Size(h, t) = h.end - t /\ t + 5 <= h.end
            BY <3>1 DEF OneHole
        <3>3. h.end - t >= 5 /\ t + (h.end - t) = h.end
            BY <1>1, <3>2
        <3>4. Size(h, a) >= HDR + FTR /\ End(a) = h.end
            BY <1>1, <3>1, <3>2, <3>3 DEF End
        <3>5. a = start_address \/ \E b \in Blocks : End(b) = a
            <4>1. CASE n = 0
                BY <3>1, <4>1 DEF t, n, Top
            <4>2. CASE n # 0
                <5>1. n \in 1 .. n
                    BY <1>1, <4>2
                <5>2. HeadOf(live[n]) \in Blocks /\ End(HeadOf(live[n])) = t
                    BY <1>2, <5>1 DEF HeldBlock, n, t
                <5> QED BY <3>1, <5>2
            <4> QED BY <4>1, <4>2
        <3> QED BY <3>4, <3>5
    <2>2. CASE a \in Blocks
        <3>1. PICK i \in 1 .. n : a = HeadOf(live[i])
            BY <2>2, HeadsAre DEF n
        <3>2. Size(h, a) >= HDR + FTR
            BY <1>1, <1>2, <3>1 DEF HeldBlock
        <3>3. End(a) \in Holes \cup Blocks \cup {h.end}
            <4>1. CASE i = n
                <5>1. End(a) = t
                    BY <1>2, <3>1, <4>1 DEF HeldBlock, n, t
                <5> QED BY <1>8, <5>1
            <4>2. CASE i # n
                <5>1. i + 1 \in 1 .. n /\ i + 1 # 1 /\ (i + 1) - 1 = i
                    BY <1>1, <4>2
                <5>2. HeadOf(live[i + 1]) \in Blocks
                      /\ HeadOf(live[i + 1]) = End(HeadOf(live[(i + 1) - 1]))
                    BY <1>2, <5>1 DEF HeldBlock
                <5> QED BY <3>1, <5>1, <5>2
            <4> QED BY <4>1, <4>2
        <3>4. a = start_address \/ \E b \in Blocks : End(b) = a
            <4>1. CASE i = 1
                BY <1>2, <3>1, <4>1 DEF HeldBlock
            <4>2. CASE i # 1
                <5>1. i - 1 \in 1 .. n
                    BY <1>1, <4>2
                <5>2. HeadOf(live[i - 1]) \in Blocks
                    BY <1>2, <5>1 DEF HeldBlock
                <5>3. a = End(HeadOf(live[i - 1]))
                    BY <1>2, <3>1, <4>2 DEF HeldBlock
                <5> QED BY <5>2, <5>3
            <4> QED BY <4>1, <4>2
        <3> QED BY <3>2, <3>3, <3>4
    <2> QED BY <2>1, <2>2
<1>10. ASSUME NEW i \in DOMAIN live PROVE Size(h, live[i].ptr - HDR) >= live[i].size + HDR + FTR
    BY <1>1, <1>2 DEF HeldBlock
<1> QED BY <1>5, <1>6, <1>7, <1>9, <1>10 DEF HeapTiled

LEMMA MarkersHold == ASSUME HInv PROVE MarkersAgree
<1>1. ASSUME NEW a \in Holes PROVE Magic(h, a) = HEAP_MAGIC /\ IsHole(h, a) = 1
    BY HoleMeans DEF OneHole
<1>2. ASSUME NEW a \in Blocks
      PROVE  /\ Magic(h, a) = HEAP_MAGIC /\ IsHole(h, a) = 0
             /\ Magic(h, End(a) - FTR) = HEAP_MAGIC /\ Header(h, End(a) - FTR) = a
    <2>1. PICK i \in 1 .. Len(live) : a = HeadOf(live[i])
        BY HeadsAre
    <2>2. HeldBlock(i)
        BY HeldMeans
    <2> QED BY <2>1, <2>2 DEF HeldBlock
<1> QED BY <1>1, <1>2 DEF MarkersAgree

LEMMA LeftHolds ==
    ASSUME HInv, NEW i \in MayFree
    PROVE  LeftHole(h, live[i].ptr - HDR) = {}
<1>1. Len(live) > 0 /\ i = Len(live)
    BY MayFreeMeans
<1>2. /\ Laid(h, live, scenario.max) /\ Len(live) \in Nat
    BY Layout
<1> DEFINE max == scenario.max
           own == HeadOf(live[Len(live)])
<1>3. Ground(h, max) /\ live \in Seq(BlockT) /\ Stack(h.mem, live, h.end) /\ Backed(h)
    BY <1>2 DEF Laid, Ground
<1>4. own \in Nat
    <2>1. Len(live) \in 1 .. Len(live)
        BY <1>1, <1>2
    <2> QED BY <1>2, <2>1, LaidTypes
<1> HIDE DEF max
<1>5. LeftHole(h, own) = {}
    <2>1. \A x \in start_address - PAGE .. max - 1 : x < own => h.mem[x] = h.mem[x]
        OBVIOUS
    <2>2. own = HeadOf(live[Len(live)])
        OBVIOUS
    <2> HIDE DEF own
    <2> QED BY <1>1, <1>3, <1>4, <2>1, <2>2, NothingLeft
<1> QED BY <1>1, <1>5 DEF HeadOf

(* A client that gives blocks back always leaves room behind the last one.  *)
LEMMA RoomBehind ==
    ASSUME HInv, scenario.frees = "lifo"
    PROVE  Top(h.mem, live) < h.end
<1> DEFINE t == Top(h.mem, live)
           bound == Bound(scenario)
           n == Len(live)
           holds == scenario.holds
           min == HEAP_MIN_SIZE
<1>1. holds \in Nat /\ bound \in Nat /\ holds * bound + 5 <= min /\ min \in Nat
    BY PlainMeans, Constants DEF HInv, Sound
<1>2. n \in Nat /\ t \in Nat /\ start_address \in Nat /\ h.end \in Nat
    BY Layout
<1>3. start_address + min <= h.end /\ t <= start_address + n * bound /\ n <= holds
    BY DEF HInv, Sound, Room, Called, MIN_END
<1> HIDE DEF t, bound, n, holds, min
<1>4. t + 5 <= start_address + min
    BY <1>1, <1>2, <1>3, FreeRoom
<1>5. t < h.end
    BY <1>1, <1>2, <1>3, <1>4
<1> QED BY <1>5 DEF t

LEMMA NeighboursHold == ASSUME HInv PROVE NeighboursReal
<1> SUFFICES ASSUME NEW i \in MayFree
             PROVE  /\ LeftHole(h, live[i].ptr - HDR) = {}
                    /\ End(live[i].ptr - HDR) < h.end
                    /\ End(live[i].ptr - HDR) \in Holes
    BY DEF NeighboursReal
<1>1. scenario.frees = "lifo" /\ Len(live) > 0 /\ i = Len(live)
    BY MayFreeMeans
<1>2. Len(live) \in Nat /\ Top(h.mem, live) \in Nat /\ h.end \in Nat
    BY Layout
<1>3. HeldBlock(i)
    <2>1. i \in 1 .. Len(live)
        BY <1>1, <1>2
    <2> QED BY <2>1, HeldMeans
<1>4. End(live[i].ptr - HDR) = Top(h.mem, live)
    BY <1>1, <1>3 DEF HeldBlock
<1>5. Top(h.mem, live) < h.end
    BY <1>1, RoomBehind
<1>6. Top(h.mem, live) \in Holes
    BY <1>2, <1>5, HoleMeans DEF OneHole
<1> QED BY <1>4, <1>5, <1>6, LeftHolds

LEMMA CarvesHold == ASSUME HInv PROVE CarveFits
<1> SUFFICES ASSUME NEW r \in Requested, Fitting(r) # 0
             PROVE  /\ r.align = FALSE
                    /\ Size(h, lookup_ordered_array(Fitting(r), h.index)) - 0 - (r.size + HDR + FTR) >= 0
    BY DEF CarveFits
<1>1. r.align = FALSE /\ r.size \in Nat
    <2>1. scenario \in Scenarios /\ Plain(scenario) /\ r \in Of(scenario)
        BY RequestedMeans DEF HInv, Sound
    <2> QED BY <2>1, PlainMeans
<1> DEFINE t == Top(h.mem, live)
           n == r.size + HDR + FTR
<1>2. t \in Nat /\ h.end \in Nat /\ n \in Nat
    BY <1>1, Layout, Constants
<1>3. Fitting(r) = find_smallest_hole(n, FALSE, h)
    BY <1>1 DEF Fitting
<1> HIDE DEF n
<1>4. OneHole(t)
    BY <1>3, HoleMeans, FindMeans
<1> HIDE DEF t
<1>5. h.index = <<t>> /\ Size(h, t) = h.end - t
    BY <1>4 DEF OneHole
<1>6. Fitting(r) = 1 /\ Size(h, t) >= n
    BY <1>3, <1>5, FindMeans
<1>7. lookup_ordered_array(Fitting(r), h.index) = t
    BY <1>5, <1>6 DEF lookup_ordered_array
<1>8. Size(h, t) - 0 - n >= 0
    BY <1>2, <1>5, <1>6
<1> QED BY <1>1, <1>7, <1>8 DEF n

LEMMA UnifiedHolds == ASSUME HInv PROVE HolesUnified
<1> SUFFICES ASSUME NEW a \in Holes PROVE End(a) \notin Holes
    BY DEF HolesUnified
<1> DEFINE t == Top(h.mem, live)
<1>1. t \in Nat /\ h.end \in Nat
    BY Layout
<1>2. OneHole(t)
    BY HoleMeans
<1> HIDE DEF t
<1>3. a = t /\ Holes = {t} /\ Size(h, t) = h.end - t /\ t + 5 <= h.end
    BY <1>2 DEF OneHole
<1>4. t + (h.end - t) # t
    BY <1>1, <1>3
<1> QED BY <1>3, <1>4 DEF End

LEMMA FramesHold == ASSUME HInv PROVE HeapFramed
<1> DEFINE e == h.end
<1>1. e \in Nat /\ start_address \in Nat /\ start_address < e /\ start_address % PAGE = 0
      /\ PAGE \in Nat /\ PAGE > 5
    BY Layout, Start, Constants
<1>2. \A x \in start_address .. e - 1 : x \div PAGE \in h.framed
    BY Layout DEF Laid, Ground, Backed
<1> HIDE DEF e
<1>3. ASSUME NEW p \in start_address \div PAGE .. (e - 1) \div PAGE PROVE p \in h.framed
    <2> DEFINE s == start_address \div PAGE
               l == (e - 1) \div PAGE
    <2>1. /\ s \in Nat /\ start_address = PAGE * s
        <3>1. s \in Nat /\ start_address = PAGE * s + (start_address % PAGE)
            BY <1>1, DivMod
        <3>2. PAGE * s \in Nat
            BY <1>1, <3>1
        <3> QED BY <1>1, <3>1, <3>2
    <2>2. e - 1 \in Nat
        BY <1>1
    <2>3. /\ l \in Nat /\ PAGE * l <= e - 1
        <3>1. l \in Nat /\ (e - 1) % PAGE \in 0 .. PAGE - 1 /\ e - 1 = PAGE * l + ((e - 1) % PAGE)
            BY <2>2, DivMod
        <3> DEFINE r == (e - 1) % PAGE
        <3>2. r \in Nat /\ e - 1 = PAGE * l + r
            BY <1>1, <3>1
        <3> HIDE DEF r, l
        <3>3. PAGE * l \in Nat
            BY <1>1, <3>1
        <3> QED BY <2>2, <3>1, <3>2, <3>3
    <2>4. p \in s .. l
        OBVIOUS
    <2> HIDE DEF s, l
    <2>5. p \in Nat /\ s <= p /\ p <= l
        BY <2>1, <2>3, <2>4
    <2>6. PAGE * s <= PAGE * p /\ PAGE * p <= PAGE * l /\ PAGE * p \in Nat
        <3>1. PAGE * s <= PAGE * p /\ PAGE * p <= PAGE * l
            BY <1>1, <2>1, <2>3, <2>5, TimesMonotonic
        <3>2. PAGE * p \in Nat
            BY <1>1, <2>5
        <3> QED BY <3>1, <3>2
    <2> DEFINE x == PAGE * p
    <2>7. x \in Nat /\ x < PAGE * p + PAGE /\ PAGE * p <= x
        BY <1>1, <2>6
    <2>8. x \div PAGE = p
        BY <2>5, <2>7, DivUnique
    <2>9. x \in start_address .. e - 1
        <3>1. PAGE * l \in Nat
            BY <1>1, <2>3
        <3> HIDE DEF x
        <3>2. start_address <= x /\ x <= e - 1
            BY <1>1, <2>1, <2>2, <2>3, <2>6, <2>7, <3>1 DEF x
        <3> QED BY <1>1, <2>2, <2>7, <3>2
    <2> QED BY <1>2, <2>8, <2>9
<1> QED BY <1>3 DEF HeapFramed, e
-----------------------------------------------------------------------------
(* The theorems *)

(* Blocks and holes tile the heap from start_address to end_address.        *)
THEOREM HeapStaysTiled == Spec /\ Plain(scenario) => []HeapTiled
<1>1. HInv => HeapTiled
    BY TilesHold
<1> QED BY <1>1, HeapIsAStack, PTL

(* Headers, footers and the index tell the same story.                      *)
THEOREM MarkersStayRight == Spec /\ Plain(scenario) => []MarkersAgree
<1>1. HInv => MarkersAgree
    BY MarkersHold
<1> QED BY <1>1, HeapIsAStack, PTL

(* free takes nothing for a hole that is none: neither what is left of the  *)
(* block nor what is right of it, which is always inside the heap.          *)
THEOREM NeighboursAreReal == Spec /\ Plain(scenario) => []NeighboursReal
<1>1. HInv => NeighboursReal
    BY NeighboursHold
<1> QED BY <1>1, HeapIsAStack, PTL

(* The hole alloc picks has room for what it carves: no size wraps.         *)
THEOREM CarvesFit == Spec /\ Plain(scenario) => []CarveFits
<1>1. HInv => CarveFits
    BY CarvesHold
<1> QED BY <1>1, HeapIsAStack, PTL

(* free and alloc leave no two holes next to each other.                    *)
THEOREM HolesAreUnified == Spec /\ Plain(scenario) => []HolesUnified
<1>1. HInv => HolesUnified
    BY UnifiedHolds
<1> QED BY <1>1, HeapIsAStack, PTL

(* expand and contract keep a frame under every page of the heap.           *)
THEOREM HeapHasItsFrames == Spec /\ Plain(scenario) => []HeapFramed
<1>1. HInv => HeapFramed
    BY FramesHold
<1> QED BY <1>1, HeapIsAStack, PTL

(* The words of a block below t are as before. *)
LEMMA SameData ==
    ASSUME NEW k, NEW m, NEW t \in Nat, NEW max \in Nat, t <= max, SameBelow(k, m, t, max),
           NEW b, b.ptr \in Nat, b.size \in Nat, start_address <= b.ptr, b.ptr + b.size <= t
    PROVE  DataOf(b, m) = DataOf(b, k)
<1> DEFINE p == b.ptr
           n == b.size
<1>1. p \in Nat /\ n \in Nat /\ start_address <= p /\ p + n <= t
    OBVIOUS
<1> HIDE DEF p, n
<1>2. ASSUME NEW j \in 0 .. n - 1 PROVE k[p + j] = m[p + j]
    <2>1. p + j \in start_address - PAGE .. max - 1 /\ p + j < t
        BY <1>1, Start, Constants
    <2> QED BY <2>1 DEF SameBelow
<1>3. [j \in 0 .. n - 1 |-> m[p + j]] = [j \in 0 .. n - 1 |-> k[p + j]]
    BY <1>2
<1> QED BY <1>3 DEF DataOf, p, n

(* The bounds of a block the client holds. *)
LEMMA HeldBounds ==
    ASSUME NEW g, NEW lv, NEW max, Laid(g, lv, max), NEW i \in 1 .. Len(lv)
    PROVE  /\ lv[i].ptr \in Nat /\ lv[i].size \in Nat /\ start_address <= lv[i].ptr
           /\ lv[i].ptr + lv[i].size <= EndOf(g.mem, lv[i])
           /\ EndOf(g.mem, lv[i]) \in Nat /\ EndOf(g.mem, lv[i]) <= Top(g.mem, lv)
<1> DEFINE p == HeadOf(lv[i])
           n == lv[i].size
           q == EndOf(g.mem, lv[i])
<1>1. /\ p \in Nat /\ q \in Nat /\ n \in Nat /\ lv[i].ptr = p + 3 /\ start_address <= p
      /\ p + n + 5 <= q /\ q <= Top(g.mem, lv) /\ start_address \in Nat
    BY LaidTypes
<1> HIDE DEF p, n, q
<1>2. p + 3 \in Nat /\ start_address <= p + 3 /\ p + 3 + n <= q
    BY <1>1
<1> QED BY <1>1, <1>2 DEF n, q

LEMMA DataStays ==
    ASSUME HInv, Next, live' # live \/ calling' # {},
           NEW i \in DOMAIN live, NEW j \in DOMAIN live', live[i] = live'[j]
    PROVE  DataOf(live[i], h.mem) = DataOf(live[i], h'.mem)
<1> DEFINE t == Top(h.mem, live)
           max == scenario.max
<1>1. Steps /\ HInv'
    BY StepMeans
<1>2. /\ Laid(h, live, max) /\ Len(live) \in Nat /\ DOMAIN live = 1 .. Len(live) /\ t \in Nat
    BY Layout
<1>3. max \in Nat /\ t <= max
    BY <1>2, LaidTypes
<1> HIDE DEF t, max
<1>4. ASSUME SameBelow(h'.mem, h.mem, t, max) PROVE DataOf(live[i], h.mem) = DataOf(live[i], h'.mem)
    <2> DEFINE b == live[i]
               q == EndOf(h.mem, b)
    <2>1. /\ b.ptr \in Nat /\ b.size \in Nat /\ start_address <= b.ptr
          /\ b.ptr + b.size <= q /\ q \in Nat /\ q <= t
        BY <1>2, HeldBounds DEF t
    <2> HIDE DEF b, q
    <2>2. b.ptr + b.size <= t
        BY <1>2, <2>1
    <2>3. DataOf(b, h.mem) = DataOf(b, h'.mem)
        BY <1>2, <1>3, <1>4, <2>1, <2>2, SameData
    <2> QED BY <2>3 DEF b
<1>5. CASE GaveOut
    BY <1>4, <1>5 DEF GaveOut, t, max
<1>6. CASE CouldNotGrow
    <2>1. h \in HeapT(max)
        BY <1>2 DEF Laid, Ground
    <2>2. h'.mem = h.mem
        BY <1>6, <2>1 DEF CouldNotGrow, HeapT
    <2> QED BY <2>2
<1>7. CASE Grew
    BY <1>4, <1>7 DEF Grew, t, max
<1>8. CASE TookBack
    <2> DEFINE n == Len(live)
               own == HeadOf(live[n])
               b == live[j]
               q == EndOf(h.mem, b)
    <2>1. /\ n > 0 /\ live' = RemoveAt(live, Len(live)) /\ SameBelow(h'.mem, h.mem, own, max)
        BY <1>8 DEF TookBack, FreeLaid, max
    <2>2. live \in Seq(BlockT) /\ Stack(h.mem, live, h.end) /\ n \in Nat
        BY <1>2 DEF Laid
    <2>3. /\ live' \in Seq(BlockT) /\ Len(live') = Len(live) - 1
          /\ \A k \in 1 .. Len(live) - 1 : live'[k] = live[k]
        BY <2>1, <2>2, RemoveLast
    <2>4. DOMAIN live' = 1 .. Len(live')
        BY <2>3, LenProperties
    <2>5. j \in 1 .. n /\ n \in 1 .. n /\ j < n /\ j \in 1 .. Len(live) - 1
        BY <2>1, <2>2, <2>3, <2>4
    <2>6. live[i] = b
        BY <2>3, <2>5
    <2>7. q <= own
        BY <2>2, <2>5 DEF Stack
    <2>8. /\ b.ptr \in Nat /\ b.size \in Nat /\ start_address <= b.ptr
          /\ b.ptr + b.size <= q /\ q \in Nat
        BY <1>2, <2>5, HeldBounds
    <2>9. own \in Nat /\ own <= max
        <3>1. own \in Nat /\ EndOf(h.mem, live[n]) \in Nat /\ own + 5 <= EndOf(h.mem, live[n])
              /\ EndOf(h.mem, live[n]) <= Top(h.mem, live)
            BY <1>2, <2>5, LaidTypes
        <3> DEFINE z == EndOf(h.mem, live[n])
        <3>2. z \in Nat /\ own + 5 <= z /\ z <= t /\ own \in Nat
            BY <3>1 DEF t
        <3> HIDE DEF own, z
        <3> QED BY <1>2, <1>3, <3>2
    <2> HIDE DEF b, q, own
    <2>10. b.ptr + b.size <= own
        BY <2>7, <2>8, <2>9
    <2>11. DataOf(b, h.mem) = DataOf(b, h'.mem)
        BY <1>3, <2>1, <2>8, <2>9, <2>10, SameData
    <2> QED BY <2>6, <2>11
<1>9. CASE Wrote
    BY <1>9 DEF Wrote
<1> QED BY <1>1, <1>5, <1>6, <1>7, <1>8, <1>9 DEF Steps

(* alloc, growing or not, and free never touch the contents of a block that *)
(* the client keeps.                                                        *)
THEOREM ContentsAreKept == Spec /\ Plain(scenario) => DataKept
<1>1. HInv /\ [Next]_vars =>
        [live' # live \/ calling' # {} => \A i \in DOMAIN live, j \in DOMAIN live' :
            live[i] = live'[j] => DataOf(live[i], h.mem) = DataOf(live[i], h'.mem)]_vars
    BY DataStays
<1> QED BY <1>1, HeapIsAStack, PTL DEF Spec, DataKept

LEMMA InitPromise == ASSUME Init, Plain(scenario) PROVE Allocator!Init
<1>1. live = << >>
    BY DEF Init
<1>3. h.stop = "no"
    BY InitHeap
<1> QED BY <1>1, <1>3 DEF Allocator!Init

LEMMA StepPromise ==
    ASSUME HInv, Next
    PROVE  Allocator!Next \/ UNCHANGED Allocator!vars
<1> DEFINE t == Top(h.mem, live)
           e == h.end
<1>1. Steps /\ HInv' /\ h.stop = "no"
    BY StepMeans
<1>2. /\ Laid(h, live, scenario.max) /\ Len(live) \in Nat /\ DOMAIN live = 1 .. Len(live)
      /\ t \in Nat /\ e \in Nat /\ start_address \in Nat /\ start_address <= t /\ t <= e
      /\ live \in Seq(BlockT)
    BY Layout DEF Laid
<1>3. ASSUME GaveOut PROVE Allocator!Alloc
    <2>1. PICK b \in BlockT :
            /\ live' = Append(live, b) /\ b.ptr = t + 3 /\ b.size + 5 <= e - t
            /\ h'.stop = "no" /\ h'.end = h.end
        BY <1>3 DEF GaveOut
    <2>2. live' # << >> /\ Allocator!Last(live') = b
        BY <1>2, <2>1, AppendProperties DEF Allocator!Last
    <2>3. b.align = FALSE /\ b.size \in Nat
        BY DEF BlockT
    <2> DEFINE p == b.ptr
               n == b.size
    <2>4. p = t + 3 /\ n \in Nat /\ n + 5 <= e - t
        BY <2>1, <2>3
    <2> HIDE DEF t, e, p, n
    <2>5. p .. p + n - 1 \subseteq start_address .. e - 1
        BY <1>2, <2>4
    <2>6. ASSUME NEW i \in DOMAIN live PROVE Allocator!Disjoint(b, live[i])
        <3> DEFINE o == live[i].ptr
                   s == live[i].size
                   q == EndOf(h.mem, live[i])
        <3>1. o \in Nat /\ s \in Nat /\ o + s <= q /\ q \in Nat /\ q <= t
            BY <1>2, HeldBounds DEF t
        <3> HIDE DEF o, s, q
        <3>2. (p .. p + n - 1) \cap (o .. o + s - 1) = {}
            BY <1>2, <2>4, <3>1
        <3> QED BY <3>2 DEF Allocator!Disjoint, Allocator!Region, p, n, o, s
    <2>7. Allocator!Region(b) \subseteq start_address .. h.end - 1
        BY <2>5 DEF Allocator!Region, p, n, e
    <2>8. UNCHANGED <<h.end, h.stop>>
        BY <1>1, <2>1
    <2>9. live' = Append(live, b) /\ (b.align => b.ptr % PAGE = 0)
        BY <2>1, <2>3
    <2> QED BY <2>2, <2>6, <2>7, <2>8, <2>9, Zenon DEF Allocator!Alloc
<1>4. ASSUME CouldNotGrow PROVE Allocator!GiveUp
    <2>1. h \in HeapT(scenario.max)
        BY <1>2 DEF Laid, Ground
    <2>2. h'.stop = "oom" /\ live' = live
        BY <1>4, <2>1 DEF CouldNotGrow, HeapT
    <2> QED BY <2>2 DEF Allocator!GiveUp
<1>5. ASSUME Grew PROVE Allocator!Extend
    BY <1>1, <1>5 DEF Grew, Allocator!Extend
<1>6. ASSUME TookBack PROVE Allocator!Free
    <2>1. /\ Len(live) > 0 /\ live' = RemoveAt(live, Len(live)) /\ h'.stop = "no"
          /\ h'.end = MIN_END /\ MIN_END <= h.end
        BY <1>6 DEF TookBack, FreeLaid
    <2>2. Len(live) \in DOMAIN live
        BY <1>2, <2>1
    <2>3. h'.end <= h.end
        BY <2>1
    <2>4. /\ Laid(h', live', scenario'.max) /\ live' \in Seq(BlockT)
        BY <1>1 DEF HInv, Sound, Laid
    <2>5. ASSUME NEW i \in DOMAIN live'
          PROVE  Allocator!Region(live'[i]) \subseteq start_address .. h'.end - 1
        <3> DEFINE g == h'
                   lv == live'
                   p == lv[i].ptr
                   n == lv[i].size
                   q == EndOf(g.mem, lv[i])
        <3>1. i \in 1 .. Len(lv)
            BY <2>4, LenProperties
        <3>2. /\ p \in Nat /\ n \in Nat /\ start_address <= p /\ p + n <= q /\ q \in Nat
              /\ q <= Top(g.mem, lv)
            BY <2>4, <3>1, HeldBounds
        <3>3. Top(g.mem, lv) \in Nat /\ Top(g.mem, lv) <= g.end /\ g.end \in Nat
            BY <2>4, LaidTypes
        <3> DEFINE u == Top(g.mem, lv)
                   f == g.end
        <3>4. u \in Nat /\ f \in Nat /\ u <= f /\ q <= u
            BY <3>2, <3>3
        <3> HIDE DEF p, n, q, u, f
        <3>5. p .. p + n - 1 \subseteq start_address .. f - 1
            BY <1>2, <3>2, <3>4
        <3> QED BY <3>5 DEF Allocator!Region, p, n, f
    <2>6. UNCHANGED h.stop
        BY <1>1, <2>1
    <2>7. \E i \in DOMAIN live : live' = Allocator!RemoveAt(live, i)
        <3>1. Allocator!RemoveAt(live, Len(live)) = RemoveAt(live, Len(live))
            BY DEF Allocator!RemoveAt, RemoveAt
        <3> QED BY <2>1, <2>2, <3>1, Zenon
    <2> QED BY <2>3, <2>5, <2>6, <2>7, Zenon DEF Allocator!Free
<1>7. ASSUME Wrote PROVE UNCHANGED Allocator!vars
    BY <1>7 DEF Wrote, Allocator!vars
<1> QED BY <1>1, <1>3, <1>4, <1>5, <1>6, <1>7 DEF Steps, Allocator!Next

(* The heap keeps the promise of kheap.h to such a client: regions it gives *)
(* out are inside the heap and apart, and it stops only for want of memory. *)
THEOREM HeapImplementsAllocator == Spec /\ Plain(scenario) => ImplementsAllocator
<1>1. Init /\ Plain(scenario) => Allocator!Init
    BY InitPromise
<1>2. HInv /\ [Next]_vars => [Allocator!Next]_(Allocator!vars)
    <2>1. ASSUME HInv, Next PROVE [Allocator!Next]_(Allocator!vars)
        BY <2>1, StepPromise
    <2>2. ASSUME UNCHANGED vars PROVE UNCHANGED Allocator!vars
        BY <2>2 DEF vars, Allocator!vars
    <2> QED BY <2>1, <2>2
<1> QED BY <1>1, <1>2, HeapIsAStack, PTL DEF Spec, ImplementsAllocator, Allocator!Spec
=============================================================================
