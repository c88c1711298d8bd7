------------------------- MODULE OrderedArrayProofs -------------------------
(***************************************************************************)
(* Proofs about ordered_array.c, for every set of items, every order and   *)
(* every capacity: the loops implement the sequence operators of           *)
(* OrderedOps (which KHeap relies on), they never touch the word behind    *)
(* the array, and they keep a sorted array sorted.                         *)
(***************************************************************************)
EXTENDS OrderedArray, SequenceTheorems, TLAPS

(* place_ordered_array sets up an array that satisfies the loop invariant.  *)
LEMMA InitInv == Init => LoopInv
BY SizeAssumption, KeysAssumption
   DEF Init, LoopInv, TypeOK, Held, HeldSize, Slots, Words

(* Every step of every loop keeps the loop invariant.                       *)
LEMMA NextInv == LoopInv /\ [Next]_vars => LoopInv'
<1> SUFFICES ASSUME LoopInv, [Next]_vars PROVE LoopInv'
    OBVIOUS
<1> USE SizeAssumption, KeysAssumption DEF LoopInv, TypeOK, Held, HeldSize, Slots, Words
<1>1. ASSUME NEW it \in Items, InsertItem(it) PROVE LoopInv'
    BY <1>1 DEF InsertItem
<1>2. CASE Scan
    BY <1>2 DEF Scan, less_than
<1>3. CASE PutLast
    BY <1>3 DEF PutLast
<1>4. CASE Displace
    BY <1>4 DEF Displace
<1>5. CASE Shift
    <2>1. size \in Nat /\ iterator \in Nat /\ iterator + 1 \in Slots /\ size < MaxSize
        BY <1>5 DEF Shift
    <2>2. HeldSize' = HeldSize /\ HeldSize = size + 1
        BY <1>5 DEF Shift
    <2>3. ASSUME NEW j \in 0 .. size PROVE Held(j)' = Held(j)
        <3>1. CASE j <= iterator
            BY <1>5, <2>1, <3>1 DEF Shift
        <3>2. CASE j = iterator + 1
            BY <1>5, <2>1, <3>2 DEF Shift
        <3>3. CASE j = iterator + 2
            BY <1>5, <2>1, <3>3 DEF Shift
        <3>4. CASE j > iterator + 2
            BY <1>5, <2>1, <3>4 DEF Shift
        <3> QED
            BY <2>1, <3>1, <3>2, <3>3, <3>4
    <2>4. \A j \in 0 .. HeldSize' - 1 : Held(j)' \in Items
        BY <2>1, <2>2, <2>3, SMTT(30)
    <2>5. TypeOK'
        BY <1>5, <2>1 DEF Shift
    <2>6. pc' = "shift" /\ size' < MaxSize /\ iterator' <= size'
        BY <1>5, <2>1 DEF Shift
    <2> QED
        BY <2>4, <2>5, <2>6
<1>6. CASE ShiftDone
    BY <1>6 DEF ShiftDone
<1>7. ASSUME NEW j \in 0 .. MaxSize - 1, RemoveItem(j) PROVE LoopInv'
    BY <1>7 DEF RemoveItem
<1>8. CASE Close
    BY <1>8 DEF Close
<1>9. CASE CloseDone
    BY <1>9 DEF CloseDone
<1>10. ASSUME NEW it \in Items, NEW k \in Keys, Rekey(it, k) PROVE LoopInv'
    BY <1>10 DEF Rekey
<1>11. CASE UNCHANGED vars
    BY <1>11 DEF vars, less_than
<1> QED
    BY <1>1, <1>2, <1>3, <1>4, <1>5, <1>6, <1>7, <1>8, <1>9, <1>10, <1>11 DEF Next, Loop

(* The loops of insert and remove keep their invariant, in particular the   *)
(* types: every slot holds an item or zero and size stays within max_size.  *)
THEOREM TypeCorrect == Spec => [](TypeOK /\ LoopInv)
<1>1. LoopInv => TypeOK
    BY DEF LoopInv
<1> QED
    BY <1>1, InitInv, NextInv, PTL DEF Spec

-----------------------------------------------------------------------------
(* The sequence operators, element by element: what is where after an       *)
(* insertion.                                                               *)
LEMMA InsertAtElements ==
    ASSUME NEW S, NEW s \in Seq(S), NEW x \in S, NEW p \in 1 .. Len(s) + 1
    PROVE  InsertAt(s, p, x) =
             [k \in 1 .. Len(s) + 1 |->
                IF k < p THEN s[k] ELSE IF k = p THEN x ELSE s[k - 1]]
<1> DEFINE l == SubSeq(s, 1, p - 1)
           r == SubSeq(s, p, Len(s))
<1>1. l \in Seq(S) /\ Len(l) = p - 1 /\ \A k \in 1 .. p - 1 : l[k] = s[k]
    OBVIOUS
<1>2. r \in Seq(S) /\ Len(r) = Len(s) - p + 1 /\ \A k \in 1 .. Len(r) : r[k] = s[k + p - 1]
    OBVIOUS
<1> HIDE DEF l, r
<1>3. l \o <<x>> \in Seq(S) /\ Len(l \o <<x>>) = p
      /\ \A k \in 1 .. p : (l \o <<x>>)[k] = IF k < p THEN s[k] ELSE x
    BY <1>1
<1> DEFINE lx == l \o <<x>>
<1>4. lx \in Seq(S) /\ Len(lx) = p /\ \A k \in 1 .. p : lx[k] = IF k < p THEN s[k] ELSE x
    BY <1>3
<1> HIDE DEF lx
<1> DEFINE t == lx \o r
<1>5. /\ t \in Seq(S) /\ Len(t) = Len(lx) + Len(r)
      /\ \A k \in 1 .. Len(lx) + Len(r) :
            t[k] = IF k <= Len(lx) THEN lx[k] ELSE r[k - Len(lx)]
    BY <1>2, <1>4, ConcatProperties
<1> HIDE DEF t
<1>6. t \in Seq(S) /\ Len(t) = Len(s) + 1 /\ Len(s) \in Nat /\ p \in Nat
    BY <1>5, <1>2, <1>4
<1>7. ASSUME NEW k \in 1 .. Len(s) + 1
      PROVE  t[k] = IF k < p THEN s[k] ELSE IF k = p THEN x ELSE s[k - 1]
    <2>1. CASE k <= p
        BY <1>5, <1>2, <1>4, <1>6, <2>1
    <2>2. CASE k > p
        <3>1. k - p \in 1 .. Len(r) /\ k \notin 1 .. Len(lx) /\ (k - p) + p - 1 = k - 1
            BY <1>2, <1>4, <1>6, <2>2
        <3>2. t[k] = r[k - p]
            BY <1>5, <1>2, <1>4, <1>6, <2>2
        <3> QED
            BY <1>2, <1>6, <2>2, <3>1, <3>2
    <2> QED
        BY <1>6, <2>1, <2>2
<1>8. t = [k \in 1 .. Len(s) + 1 |-> t[k]]
    BY <1>6
<1>9. t = [k \in 1 .. Len(s) + 1 |->
              IF k < p THEN s[k] ELSE IF k = p THEN x ELSE s[k - 1]]
    BY <1>7, <1>8
<1> QED
    BY <1>9 DEF InsertAt, t, lx, l, r

(* What is left where when an element is dropped.                           *)
LEMMA RemoveAtElements ==
    ASSUME NEW S, NEW s \in Seq(S), NEW p \in 1 .. Len(s)
    PROVE  RemoveAt(s, p) = [k \in 1 .. Len(s) - 1 |-> IF k < p THEN s[k] ELSE s[k + 1]]
<1> DEFINE l == SubSeq(s, 1, p - 1)
           r == SubSeq(s, p + 1, Len(s))
<1>1. l \in Seq(S) /\ Len(l) = p - 1 /\ \A k \in 1 .. p - 1 : l[k] = s[k]
    OBVIOUS
<1>2. r \in Seq(S) /\ Len(r) = Len(s) - p /\ \A k \in 1 .. Len(r) : r[k] = s[k + p]
    OBVIOUS
<1> HIDE DEF l, r
<1> DEFINE t == l \o r
<1>3. /\ t \in Seq(S) /\ Len(t) = Len(l) + Len(r)
      /\ \A k \in 1 .. Len(l) + Len(r) :
            t[k] = IF k <= Len(l) THEN l[k] ELSE r[k - Len(l)]
    BY <1>1, <1>2, ConcatProperties
<1> HIDE DEF t
<1>4. t \in Seq(S) /\ Len(t) = Len(s) - 1 /\ Len(s) \in Nat /\ p \in Nat
    BY <1>3, <1>1, <1>2
<1>5. \A k \in 1 .. Len(s) - 1 : t[k] = IF k <= p - 1 THEN l[k] ELSE r[k - (p - 1)]
    <2>1. Len(l) + Len(r) = Len(s) - 1
        BY <1>1, <1>2, <1>4
    <2> QED
        BY <1>3, <1>1, <2>1
<1>6. ASSUME NEW k \in 1 .. Len(s) - 1
      PROVE  t[k] = IF k < p THEN s[k] ELSE s[k + 1]
    <2>1. CASE k < p
        BY <1>1, <1>4, <1>5, <2>1
    <2>2. CASE k >= p
        <3>1. k - (p - 1) \in 1 .. Len(r) /\ k \notin 1 .. Len(l) /\ (k - (p - 1)) + p = k + 1
            BY <1>1, <1>2, <1>4, <2>2
        <3>2. ~ (k <= p - 1)
            BY <1>4, <2>2
        <3>3. t[k] = r[k - (p - 1)]
            BY <1>5, <3>2
        <3> QED
            BY <1>2, <1>4, <2>2, <3>1, <3>3
    <2> QED
        BY <1>4, <2>1, <2>2
<1>7. t = [k \in 1 .. Len(s) - 1 |-> t[k]]
    BY <1>4
<1>8. t = [k \in 1 .. Len(s) - 1 |-> IF k < p THEN s[k] ELSE s[k + 1]]
    BY <1>6, <1>7
<1> QED
    BY <1>8 DEF RemoveAt, t, l, r

(* The scan loop can stop in one place only, so that is where the item goes.*)
LEMMA InsertElements ==
    ASSUME NEW s \in Seq(Items), NEW x \in Items, NEW ks \in [Items -> Keys],
           NEW p, StopsAt(p, x, s, ks)
    PROVE  insert_ordered_array(x, s, ks) =
             [k \in 1 .. Len(s) + 1 |->
                IF k < p THEN s[k] ELSE IF k = p THEN x ELSE s[k - 1]]
<1> DEFINE c == CHOOSE q \in 1 .. Len(s) + 1 : StopsAt(q, x, s, ks)
<1>1. p \in 1 .. Len(s) + 1
    BY DEF StopsAt
<1>2. c \in 1 .. Len(s) + 1 /\ StopsAt(c, x, s, ks)
    BY <1>1
<1> HIDE DEF c
<1>3. c = p
    BY <1>1, <1>2 DEF StopsAt
<1>4. insert_ordered_array(x, s, ks) = InsertAt(s, p, x)
    BY <1>3 DEF insert_ordered_array, c
<1> QED
    BY <1>1, <1>4, InsertAtElements

-----------------------------------------------------------------------------
(* The abstract sequence is a sequence of items, given slot by slot.        *)
LEMMA ContentsType ==
    LoopInv => /\ Contents \in Seq(Items)
               /\ HeldSize \in Nat
               /\ Len(Contents) = HeldSize
               /\ \A k \in 1 .. HeldSize : Contents[k] = Held(k - 1)
<1> SUFFICES ASSUME LoopInv
             PROVE  /\ Contents \in Seq(Items)
                    /\ HeldSize \in Nat
                    /\ Len(Contents) = HeldSize
                    /\ \A k \in 1 .. HeldSize : Contents[k] = Held(k - 1)
    OBVIOUS
<1>1. HeldSize \in Nat
    BY DEF LoopInv, TypeOK, HeldSize
<1>2. \A j \in 0 .. HeldSize - 1 : Held(j) \in Items
    BY DEF LoopInv
<1> HIDE DEF Held, HeldSize
<1> QED
    BY <1>1, <1>2 DEF Contents

(* While a loop moves items it does not change the sequence they form.      *)
LEMMA LoopsKeepContents ==
    ASSUME LoopInv,
           \/ \E it \in Items : InsertItem(it)
           \/ Scan \/ Shift \/ ShiftDone \/ Close \/ CloseDone
           \/ \E it \in Items, k \in Keys : Rekey(it, k)
    PROVE  Contents' = Contents
<1> SUFFICES HeldSize' = HeldSize /\ \A j \in 0 .. HeldSize - 1 : Held(j)' = Held(j)
    BY ContentsType DEF Contents
<1> USE SizeAssumption DEF LoopInv, TypeOK, Held, HeldSize, Slots
<1>1. CASE \E it \in Items : InsertItem(it)
    BY <1>1 DEF InsertItem
<1>2. CASE Scan
    BY <1>2 DEF Scan
<1>3. CASE Shift
    <2>1. HeldSize' = HeldSize /\ HeldSize = size + 1
        BY <1>3 DEF Shift
    <2>2. ASSUME NEW j \in 0 .. size PROVE Held(j)' = Held(j)
        <3>1. CASE j <= iterator
            BY <1>3, <3>1 DEF Shift
        <3>2. CASE j = iterator + 1
            BY <1>3, <3>2 DEF Shift
        <3>3. CASE j = iterator + 2
            BY <1>3, <3>3 DEF Shift
        <3>4. CASE j > iterator + 2
            BY <1>3, <3>4 DEF Shift
        <3> QED
            BY <3>1, <3>2, <3>3, <3>4
    <2> QED
        BY <2>1, <2>2
<1>4. CASE ShiftDone
    BY <1>4 DEF ShiftDone
<1>5. CASE Close
    BY <1>5 DEF Close
<1>6. CASE CloseDone
    BY <1>6 DEF CloseDone
<1>7. CASE \E it \in Items, k \in Keys : Rekey(it, k)
    BY <1>7 DEF Rekey
<1> QED
    BY <1>1, <1>2, <1>3, <1>4, <1>5, <1>6, <1>7

(* The scan loop stops where the sequence operator says it does.            *)
LEMMA ScanEndStops ==
    ASSUME LoopInv, PutLast \/ Displace
    PROVE  StopsAt(iterator + 1, item, Contents, key)
<1> DEFINE p == iterator + 1
<1> USE SizeAssumption
<1>1. /\ pc = "scan" /\ item \in Items /\ size < MaxSize /\ iterator <= size
      /\ size \in Nat /\ iterator \in Nat
    BY DEF LoopInv, TypeOK, PutLast, Displace
<1>2. /\ Contents \in Seq(Items) /\ Len(Contents) = size
      /\ \A k \in 1 .. size : Contents[k] = array[k - 1]
    BY <1>1, ContentsType DEF HeldSize, Held
<1>3. p \in 1 .. Len(Contents) + 1
    BY <1>1, <1>2
<1>4. ASSUME NEW q \in 1 .. p - 1 PROVE less_than(key, Contents[q], item)
    <2>1. q - 1 \in 0 .. iterator - 1 /\ q \in 1 .. size
        BY <1>1
    <2>2. less_than(key, array[q - 1], item)
        BY <1>1, <2>1 DEF LoopInv
    <2> QED
        BY <1>2, <2>1, <2>2
<1>5. ASSUME p <= Len(Contents) PROVE ~ less_than(key, Contents[p], item)
    <2>1. p \in 1 .. size /\ iterator < size
        BY <1>1, <1>2, <1>5
    <2>2. ~ less_than(key, array[iterator], item)
        BY <1>1, <2>1 DEF PutLast, Displace
    <2> QED
        BY <1>1, <1>2, <2>1, <2>2
<1> QED
    BY <1>3, <1>4, <1>5 DEF StopsAt

(* The step that ends the scan is the insertion. *)
LEMMA ScanEndInserts ==
    ASSUME LoopInv, LoopInv', PutLast \/ Displace
    PROVE  /\ item \in Items /\ Len(Contents) < MaxSize
           /\ Contents' = insert_ordered_array(item, Contents, key)
           /\ key' = key
<1> DEFINE p == iterator + 1
<1> USE SizeAssumption
<1>1. /\ pc = "scan" /\ item \in Items /\ size < MaxSize /\ iterator <= size
      /\ size \in Nat /\ iterator \in Nat /\ key' = key /\ key \in [Items -> Keys]
    BY DEF LoopInv, TypeOK, PutLast, Displace
<1>2. /\ Contents \in Seq(Items) /\ Len(Contents) = size
      /\ \A k \in 1 .. size : Contents[k] = array[k - 1]
    BY <1>1, ContentsType DEF HeldSize, Held
<1>3. StopsAt(p, item, Contents, key)
    BY ScanEndStops
<1>4. insert_ordered_array(item, Contents, key) =
        [k \in 1 .. size + 1 |->
            IF k < p THEN Contents[k] ELSE IF k = p THEN item ELSE Contents[k - 1]]
    <2> HIDE DEF p
    <2> QED
        BY <1>1, <1>2, <1>3, InsertElements
<1>5. HeldSize' = size + 1
    BY <1>1 DEF HeldSize, PutLast, Displace
<1>6. ASSUME NEW k \in 1 .. size + 1
      PROVE  Held(k - 1)' = IF k < p THEN Contents[k]
                            ELSE IF k = p THEN item ELSE Contents[k - 1]
    <2>1. array \in [Slots -> Words]
        BY DEF LoopInv, TypeOK
    <2>2. CASE PutLast
        BY <1>1, <1>2, <2>1, <2>2 DEF PutLast, Held, Slots
    <2>3. CASE Displace
        BY <1>1, <1>2, <2>1, <2>3 DEF Displace, Held, Slots
    <2> QED
        BY <2>2, <2>3
<1>7. Contents' = [k \in 1 .. size + 1 |-> Held(k - 1)']
    BY <1>5 DEF Contents
<1> QED
    BY <1>1, <1>2, <1>4, <1>6, <1>7

(* A call of remove_ordered_array drops the element it is asked to drop.    *)
LEMMA RemoveCallRemoves ==
    ASSUME LoopInv, NEW j \in 0 .. MaxSize - 1, RemoveItem(j)
    PROVE  /\ j + 1 \in 1 .. Len(Contents) /\ j + 1 \in 1 .. MaxSize
           /\ Contents' = remove_ordered_array(j + 1, Contents)
           /\ key' = key
<1> USE SizeAssumption
<1>1. /\ pc = "idle" /\ pc' = "remove" /\ iterator' = j /\ j < size
      /\ size \in Nat /\ size' = size /\ array' = array /\ key' = key
    BY DEF LoopInv, TypeOK, RemoveItem
<1>2. /\ Contents \in Seq(Items) /\ Len(Contents) = size
      /\ \A k \in 1 .. size : Contents[k] = array[k - 1]
    BY <1>1, ContentsType DEF HeldSize, Held
<1>3. remove_ordered_array(j + 1, Contents) =
        [k \in 1 .. size - 1 |-> IF k < j + 1 THEN Contents[k] ELSE Contents[k + 1]]
    <2>1. j + 1 \in 1 .. Len(Contents)
        BY <1>1, <1>2
    <2>2. RemoveAt(Contents, j + 1) =
            [k \in 1 .. Len(Contents) - 1 |->
                IF k < j + 1 THEN Contents[k] ELSE Contents[k + 1]]
        BY <1>2, <2>1, RemoveAtElements
    <2> QED
        BY <1>2, <2>2 DEF remove_ordered_array
<1>4. HeldSize' = size - 1
    BY <1>1 DEF HeldSize
<1>5. ASSUME NEW k \in 1 .. size - 1
      PROVE  Held(k - 1)' = IF k < j + 1 THEN Contents[k] ELSE Contents[k + 1]
    BY <1>1, <1>2 DEF Held
<1>6. Contents' = [k \in 1 .. size - 1 |-> Held(k - 1)']
    BY <1>4 DEF Contents
<1>7. Contents' = remove_ordered_array(j + 1, Contents)
    BY <1>3, <1>5, <1>6
<1> QED
    BY <1>1, <1>2, <1>7

-----------------------------------------------------------------------------
(* ordered_array.c implements atomic calls on a sequence: the scan and      *)
(* shift loops put an item in front of the first element that is not less   *)
(* and lose none, the closing loop drops exactly the element asked for.     *)
THEOREM LoopsImplementCalls == Spec => ImplementsCalls
<1>1. Init => Abs!Init
    <2> SUFFICES ASSUME Init PROVE Abs!Init
        OBVIOUS
    <2>1. Contents \in Seq(Items) /\ Len(Contents) = 0
        BY InitInv, ContentsType DEF Init, HeldSize
    <2>2. Contents = << >>
        BY <2>1
    <2> QED
        BY <2>2 DEF Init, Abs!Init
<1>2. LoopInv /\ LoopInv' /\ [Next]_vars => [Abs!Next]_(Abs!vars)
    <2> SUFFICES ASSUME LoopInv, LoopInv', [Next]_vars PROVE [Abs!Next]_(Abs!vars)
        OBVIOUS
    <2>1. CASE \/ \E it \in Items : InsertItem(it)
               \/ Scan \/ Shift \/ ShiftDone \/ Close \/ CloseDone
        <3>1. Contents' = Contents
            BY <2>1, LoopsKeepContents
        <3>2. key' = key
            BY <2>1 DEF InsertItem, Scan, Shift, ShiftDone, Close, CloseDone
        <3> QED
            BY <3>1, <3>2 DEF Abs!vars
    <2>2. CASE PutLast \/ Displace
        BY <2>2, ScanEndInserts
           DEF Abs!Next, Abs!InsertItem, insert_ordered_array, StopsAt, less_than, InsertAt,
               Abs!insert_ordered_array, Abs!StopsAt, Abs!less_than, Abs!InsertAt
    <2>3. ASSUME NEW j \in 0 .. MaxSize - 1, RemoveItem(j) PROVE Abs!Next
        <3>1. Abs!RemoveItem(j + 1) /\ j + 1 \in 1 .. MaxSize
            BY <2>3, RemoveCallRemoves
               DEF Abs!RemoveItem, remove_ordered_array, RemoveAt,
                   Abs!remove_ordered_array, Abs!RemoveAt
        <3> QED
            BY <3>1 DEF Abs!Next
    <2>4. ASSUME NEW it \in Items, NEW k \in Keys, Rekey(it, k) PROVE Abs!Next
        <3>1. Contents' = Contents
            BY <2>4, LoopsKeepContents
        <3>2. key' = [key EXCEPT ![it] = k]
            BY <2>4 DEF Rekey
        <3> QED
            BY <3>1, <3>2 DEF Abs!Next, Abs!Rekey
    <2>5. CASE UNCHANGED vars
        BY <2>5 DEF vars, Abs!vars, Contents, Held, HeldSize
    <2> QED
        BY <2>1, <2>2, <2>3, <2>4, <2>5 DEF Next, Loop
<1>3. Spec => []LoopInv
    BY InitInv, NextInv, PTL DEF Spec
<1> QED
    BY <1>1, <1>2, <1>3, PTL DEF Spec, ImplementsCalls, Abs!Spec

(* The word behind the array is never written, whatever the calls: the      *)
(* shift loop ends at array[size] and the array was not full.               *)
THEOREM NothingPastTheEnd == Spec => StaysInside
<1>1. LoopInv /\ [Next]_vars => array'[MaxSize] = array[MaxSize]
    <2> SUFFICES ASSUME LoopInv, [Next]_vars PROVE array'[MaxSize] = array[MaxSize]
        OBVIOUS
    <2> USE SizeAssumption DEF LoopInv, TypeOK, Slots
    <2>1. CASE PutLast
        BY <2>1 DEF PutLast
    <2>2. CASE Displace
        BY <2>2 DEF Displace
    <2>3. CASE Shift
        BY <2>3 DEF Shift
    <2>4. CASE Close
        BY <2>4 DEF Close
    <2>5. CASE array' = array
        BY <2>5
    <2> QED
        BY <2>1, <2>2, <2>3, <2>4, <2>5
           DEF Next, Loop, InsertItem, Scan, ShiftDone, RemoveItem, CloseDone, Rekey, vars
<1>2. Spec => []LoopInv
    BY InitInv, NextInv, PTL DEF Spec
<1> QED
    BY <1>1, <1>2, PTL DEF Spec, StaysInside

-----------------------------------------------------------------------------
(* Inserting where the scan stops keeps a sorted sequence sorted. *)
LEMMA InsertKeepsAscending ==
    ASSUME NEW s \in Seq(Items), NEW x \in Items, NEW ks \in [Items -> Keys],
           NEW p, StopsAt(p, x, s, ks), Ascending(s, ks)
    PROVE  Ascending(insert_ordered_array(x, s, ks), ks)
<1> DEFINE t == [k \in 1 .. Len(s) + 1 |->
                   IF k < p THEN s[k] ELSE IF k = p THEN x ELSE s[k - 1]]
<1>1. insert_ordered_array(x, s, ks) = t
    BY InsertElements
<1>2. Len(s) \in Nat /\ p \in 1 .. Len(s) + 1
    BY DEF StopsAt
<1>3. Len(t) = Len(s) + 1
    BY <1>2
<1>4. \A k \in 1 .. Len(s) : s[k] \in Items /\ ks[s[k]] \in Int
    <2>1. \A k \in 1 .. Len(s) : s[k] \in Items
        OBVIOUS
    <2>2. \A y \in Items : ks[y] \in Int
        BY KeysAssumption
    <2> QED
        BY <2>1, <2>2
<1>5. ks[x] \in Int
    BY KeysAssumption
<1>6. \A k \in 1 .. p - 1 : ks[s[k]] < ks[x]
    BY DEF StopsAt, less_than
<1>7. \A k \in p .. Len(s) : ks[x] <= ks[s[k]]
    <2> SUFFICES ASSUME NEW k \in p .. Len(s) PROVE ks[x] <= ks[s[k]]
        OBVIOUS
    <2>1. ks[x] <= ks[s[p]] /\ p \in 1 .. Len(s)
        BY <1>2, <1>4, <1>5 DEF StopsAt, less_than
    <2>2. ks[s[p]] <= ks[s[k]]
        BY <1>2, <1>4, <2>1 DEF Ascending
    <2> QED
        BY <1>2, <1>4, <1>5, <2>1, <2>2
<1>8. ASSUME NEW a \in 1 .. Len(s) + 1, NEW b \in 1 .. Len(s) + 1, a < b
      PROVE  ks[t[a]] <= ks[t[b]]
    <2>1. CASE b < p
        BY <1>2, <1>8, <2>1 DEF Ascending
    <2>2. CASE b = p
        BY <1>2, <1>4, <1>5, <1>6, <1>8, <2>2
    <2>3. CASE b > p /\ a < p
        BY <1>2, <1>8, <2>3 DEF Ascending
    <2>4. CASE b > p /\ a = p
        BY <1>2, <1>7, <1>8, <2>4
    <2>5. CASE b > p /\ a > p
        BY <1>2, <1>8, <2>5 DEF Ascending
    <2> QED
        BY <1>2, <1>8, <2>1, <2>2, <2>3, <2>4, <2>5
<1> HIDE DEF t
<1> QED
    BY <1>1, <1>3, <1>8 DEF Ascending

(* Dropping an element keeps a sorted sequence sorted.                      *)
LEMMA RemoveKeepsAscending ==
    ASSUME NEW s \in Seq(Items), NEW ks \in [Items -> Keys],
           NEW p \in 1 .. Len(s), Ascending(s, ks)
    PROVE  Ascending(remove_ordered_array(p, s), ks)
<1> DEFINE t == [k \in 1 .. Len(s) - 1 |-> IF k < p THEN s[k] ELSE s[k + 1]]
<1>1. remove_ordered_array(p, s) = t
    BY RemoveAtElements DEF remove_ordered_array
<1>2. Len(s) \in Nat /\ Len(t) = Len(s) - 1
    OBVIOUS
<1>3. ASSUME NEW a \in 1 .. Len(s) - 1, NEW b \in 1 .. Len(s) - 1, a < b
      PROVE  ks[t[a]] <= ks[t[b]]
    BY <1>2, <1>3 DEF Ascending
<1> HIDE DEF t
<1> QED
    BY <1>1, <1>2, <1>3 DEF Ascending

(* A sorted array stays sorted through every step of every call, as         *)
(* ordered_array.h:9 says; only its owner can unsort it, by changing a key. *)
THEOREM CallsKeepAscending == Spec => OnlyRekeyUnsorts
<1>1. LoopInv /\ LoopInv' /\ [Next]_vars
        => (key' = key /\ Ascending(Contents, key) => Ascending(Contents, key)')
    <2> SUFFICES ASSUME LoopInv, LoopInv', [Next]_vars, key' = key, Ascending(Contents, key)
                 PROVE  Ascending(Contents', key)
        BY DEF Ascending
    <2>1. Contents \in Seq(Items) /\ key \in [Items -> Keys]
        BY ContentsType DEF LoopInv, TypeOK
    <2>2. CASE Contents' = Contents
        BY <2>2
    <2>3. CASE PutLast \/ Displace
        <3>1. item \in Items /\ Contents' = insert_ordered_array(item, Contents, key)
            BY <2>3, ScanEndInserts
        <3>2. StopsAt(iterator + 1, item, Contents, key)
            BY <2>3, ScanEndStops
        <3>3. Ascending(insert_ordered_array(item, Contents, key), key)
            BY <2>1, <3>1, <3>2, InsertKeepsAscending
        <3> QED
            BY <3>1, <3>3
    <2>4. ASSUME NEW j \in 0 .. MaxSize - 1, RemoveItem(j) PROVE Ascending(Contents', key)
        <3>1. /\ j + 1 \in 1 .. Len(Contents)
              /\ Contents' = remove_ordered_array(j + 1, Contents)
            BY <2>4, RemoveCallRemoves
        <3>2. Ascending(remove_ordered_array(j + 1, Contents), key)
            BY <2>1, <3>1, RemoveKeepsAscending
        <3> QED
            BY <3>1, <3>2
    <2>5. CASE UNCHANGED vars
        BY <2>2, <2>5 DEF vars, Contents, Held, HeldSize
    <2> QED
        BY <2>2, <2>3, <2>4, <2>5, LoopsKeepContents DEF Next, Loop
<1>2. Spec => []LoopInv
    BY InitInv, NextInv, PTL DEF Spec
<1> QED
    BY <1>1, <1>2, PTL DEF Spec, OnlyRekeyUnsorts
=============================================================================
