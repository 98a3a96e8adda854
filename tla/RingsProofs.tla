----------------------------- MODULE RingsProofs -----------------------------
(***************************************************************************)
(* Proofs about the two rings, for every capacity, every number of cursor  *)
(* values that the capacity divides, every set of items and every number   *)
(* of consumers.                                                           *)
(***************************************************************************)
EXTENDS Rings, WellFoundedInduction, TLAPS

(***************************************************************************)
(* Remainders.                                                             *)
(***************************************************************************)

\* The remainder of a cursor is an index of the ring, and determines it up to
\* a multiple of the divisor.
LEMMA DivMod ==
  ASSUME NEW a \in Int, NEW n \in Nat \ {0}
  PROVE  /\ a % n \in 0 .. n - 1
         /\ a \div n \in Int
         /\ a = n * (a \div n) + (a % n)
  OBVIOUS

\* A multiple of n strictly between -n and n is 0.
LEMMA SmallMultiple ==
  ASSUME NEW n \in Nat \ {0}, NEW k \in Int, -n < n * k, n * k < n
  PROVE  k = 0
  OBVIOUS

\* The remainder is the only number of its range at a multiple's distance.
LEMMA ModUnique ==
  ASSUME NEW a \in Int, NEW n \in Nat \ {0}, NEW q \in Int, NEW r \in 0 .. n - 1,
         a = n * q + r
  PROVE  a % n = r
  <1>1. PICK p \in Int : a = n * p + (a % n)
    BY DivMod, Zenon
  <1>2. a % n \in 0 .. n - 1
    BY DivMod
  <1>3. n * (p - q) = r - (a % n)
    BY <1>1, <1>2
  <1>4. p - q = 0
    BY <1>2, <1>3, SmallMultiple
  <1> QED BY <1>1, <1>2, <1>4

\* The remainder of a number at most one turn off the range.
LEMMA ModOnce ==
  ASSUME NEW n \in Nat \ {0}, NEW a \in Int, -n <= a, a < 2 * n
  PROVE  a % n = IF a < 0 THEN a + n ELSE IF a < n THEN a ELSE a - n
  <1>1. CASE a < 0
    <2>1. a + n \in 0 .. n - 1 /\ a = n * (-1) + (a + n) /\ -1 \in Int
      BY <1>1
    <2> QED BY <1>1, <2>1, ModUnique
  <1>2. CASE a >= 0 /\ a < n
    <2>1. a \in 0 .. n - 1 /\ a = n * 0 + a
      BY <1>2
    <2> QED BY <1>2, <2>1, ModUnique
  <1>3. CASE a >= n
    <2>1. a - n \in 0 .. n - 1 /\ a = n * 1 + (a - n)
      BY <1>3
    <2> QED BY <1>3, <2>1, ModUnique
  <1> QED BY <1>1, <1>2, <1>3

\* Whole turns of the ring do not change the index.
LEMMA ModShift ==
  ASSUME NEW n \in Nat \ {0}, NEW q \in Int, NEW a \in Int
  PROVE  (a + n * q) % n = a % n
  <1>1. PICK p \in Int : a = n * p + (a % n)
    BY DivMod, Zenon
  <1>2. a % n \in 0 .. n - 1
    BY DivMod
  <1>3. a + n * q = n * (p + q) + (a % n)
    BY <1>1, <1>2
  <1>4. a + n * q \in Int /\ p + q \in Int
    OBVIOUS
  <1> QED BY <1>2, <1>3, <1>4, ModUnique, Zenon

\* Fewer than n consecutive cursors have different indices.
LEMMA ModDistinct ==
  ASSUME NEW n \in Nat \ {0}, NEW a \in Int, NEW b \in Int,
         -n < a - b, a - b < n, a % n = b % n
  PROVE  a = b
  <1>1. PICK p \in Int : a = n * p + (a % n)
    BY DivMod, Zenon
  <1>2. PICK q \in Int : b = n * q + (b % n)
    BY DivMod, Zenon
  <1>3. a % n \in Int
    BY DivMod
  <1>4. a - b = n * (p - q)
    BY <1>1, <1>2, <1>3
  <1>5. p - q = 0
    BY <1>4, SmallMultiple
  <1> QED BY <1>4, <1>5

\* A function on 1 .. n + 1 that continues a sequence by one item.
LEMMA SeqExtended ==
  ASSUME NEW S, NEW n \in Nat, NEW f \in [1 .. n + 1 -> S], NEW s \in Seq(S),
         Len(s) = n, \A i \in 1 .. n : s[i] = f[i]
  PROVE  f = Append(s, f[n + 1])
  <1> DEFINE a == Append(s, f[n + 1])
  <1>1. a \in Seq(S) /\ Len(a) = n + 1 /\ f \in Seq(S) /\ Len(f) = n + 1
    OBVIOUS
  <1>2. \A i \in 1 .. n + 1 : a[i] = f[i]
    OBVIOUS
  <1> QED BY <1>1, <1>2

\* A sequence shifted by one is the tail.
LEMMA SeqTail ==
  ASSUME NEW S, NEW n \in Nat \ {0}, NEW f \in [1 .. n -> S], NEW g \in [1 .. n - 1 -> S],
         \A i \in 1 .. n - 1 : f[i + 1] = g[i]
  PROVE  g = Tail(f)
  <1>1. f \in Seq(S) /\ Len(f) = n /\ f # <<>> /\ g \in Seq(S) /\ Len(g) = n - 1
    OBVIOUS
  <1>2. Tail(f) \in Seq(S) /\ Len(Tail(f)) = n - 1
    BY <1>1
  <1>3. \A i \in 1 .. n - 1 : Tail(f)[i] = f[i + 1]
    BY <1>1
  <1> QED BY <1>1, <1>2, <1>3

(***************************************************************************)
(* Cursors of the SPSC ring.                                               *)
(***************************************************************************)

\* wrapping_add and wrapping_sub without the remainder.
LEMMA AddWraps ==
  ASSUME NEW a \in Cursors, NEW n \in 0 .. Wrap
  PROVE  wrapping_add(a, n) = IF a + n < Wrap THEN a + n ELSE a + n - Wrap
  <1>1. PICK s \in Int : s = a + n
    BY SpscAssumption DEF Cursors
  <1>2. Wrap \in Nat \ {0} /\ -Wrap <= s /\ s < 2 * Wrap /\ ~(s < 0)
    BY <1>1, SpscAssumption DEF Cursors
  <1>3. s % Wrap = IF s < Wrap THEN s ELSE s - Wrap
    BY <1>2, ModOnce, Zenon
  <1> QED BY <1>1, <1>3, SpscAssumption DEF wrapping_add, Cursors

\* Wrapping subtraction of cursors, without the modulus.
LEMMA SubWraps ==
  ASSUME NEW a \in Cursors, NEW b \in Cursors
  PROVE  wrapping_sub(a, b) = IF a >= b THEN a - b ELSE a - b + Wrap
  <1>1. /\ Wrap \in Nat \ {0} /\ a - b \in Int /\ -Wrap <= a - b /\ a - b < 2 * Wrap
        /\ a - b < Wrap /\ (a - b < 0 <=> ~(a >= b))
    BY SpscAssumption DEF Cursors
  <1> QED BY <1>1, ModOnce DEF wrapping_sub

\* How distances change when a cursor advances.
LEMMA Distance ==
  ASSUME NEW a \in Cursors, NEW b \in Cursors
  PROVE  /\ wrapping_sub(a, b) \in 0 .. Wrap - 1
         /\ wrapping_sub(a, b) = 0 <=> a = b
         /\ wrapping_add(b, wrapping_sub(a, b)) = a
         /\ \A n \in 0 .. Wrap : wrapping_add(a, n) \in Cursors
         /\ \A n \in 0 .. Wrap - 1 - wrapping_sub(a, b) :
              wrapping_sub(wrapping_add(a, n), b) = wrapping_sub(a, b) + n
         /\ \A n \in 0 .. wrapping_sub(a, b) :
              wrapping_sub(a, wrapping_add(b, n)) = wrapping_sub(a, b) - n
  <1> USE SpscAssumption DEF Cursors
  <1>1. wrapping_sub(a, b) \in 0 .. Wrap - 1 /\ (wrapping_sub(a, b) = 0 <=> a = b)
    BY SubWraps
  <1>2. wrapping_add(b, wrapping_sub(a, b)) = a
    BY <1>1, SubWraps, AddWraps
  <1>3. ASSUME NEW n \in 0 .. Wrap
        PROVE  wrapping_add(a, n) \in Cursors
    BY AddWraps
  <1>4. ASSUME NEW n \in 0 .. Wrap - 1 - wrapping_sub(a, b)
        PROVE  wrapping_sub(wrapping_add(a, n), b) = wrapping_sub(a, b) + n
    <2>1. n \in 0 .. Wrap
      BY <1>1
    <2>2. wrapping_add(a, n) \in Cursors
      BY <2>1, <1>3
    <2>3. wrapping_add(a, n) = IF a + n < Wrap THEN a + n ELSE a + n - Wrap
      BY <2>1, AddWraps
    <2>4. wrapping_sub(wrapping_add(a, n), b)
            = IF wrapping_add(a, n) >= b THEN wrapping_add(a, n) - b
              ELSE wrapping_add(a, n) - b + Wrap
      BY <2>2, SubWraps, Zenon
    <2>5. wrapping_sub(a, b) = IF a >= b THEN a - b ELSE a - b + Wrap
      BY SubWraps
    <2> QED BY <2>1, <2>3, <2>4, <2>5
  <1>5. ASSUME NEW n \in 0 .. wrapping_sub(a, b)
        PROVE  wrapping_sub(a, wrapping_add(b, n)) = wrapping_sub(a, b) - n
    <2>1. n \in 0 .. Wrap
      BY <1>1
    <2>2. wrapping_add(b, n) = IF b + n < Wrap THEN b + n ELSE b + n - Wrap
      BY <2>1, AddWraps
    <2>3. wrapping_add(b, n) \in Cursors
      BY <2>1, <2>2
    <2> QED BY <2>2, <2>3, <1>1, SubWraps
  <1> QED BY <1>1, <1>2, <1>3, <1>4, <1>5

\* The index of a cursor further on, across the wrap: Cap divides Wrap.
LEMMA MaskAdd ==
  ASSUME NEW a \in Cursors, NEW n \in 0 .. Wrap
  PROVE  /\ mask(wrapping_add(a, n)) = (a + n) % Cap
         /\ mask(wrapping_add(a, n)) \in 0 .. Cap - 1
  <1> DEFINE q == Wrap \div Cap
  <1>1. q \in Int /\ Wrap = Cap * q
    BY SpscAssumption, DivMod
  <1>2. a + n \in Int /\ -q \in Int /\ a + n - Wrap = (a + n) + Cap * (-q)
    BY <1>1, SpscAssumption DEF Cursors
  <1> HIDE DEF q
  <1>3. (a + n - Wrap) % Cap = (a + n) % Cap
    BY <1>2, ModShift, SpscAssumption, Zenon
  <1>4. mask(wrapping_add(a, n)) = (a + n) % Cap
    BY <1>3, AddWraps DEF mask
  <1> QED BY <1>2, <1>4, DivMod, SpscAssumption, Zenon

\* The index one cursor further on, and a whole turn further on.
LEMMA IndexFurther ==
  ASSUME NEW a \in Cursors, NEW k \in 0 .. Cap - 1
  PROVE  mask(wrapping_add(wrapping_add(a, 1), k)) = mask(wrapping_add(a, k + 1))
  <1> USE SpscAssumption
  <1> DEFINE q == Wrap \div Cap
  <1>1. q \in Int /\ Wrap = Cap * q
    BY DivMod
  <1> HIDE DEF q
  <1>2. /\ mask(wrapping_add(wrapping_add(a, 1), k)) = (wrapping_add(a, 1) + k) % Cap
        /\ mask(wrapping_add(a, k + 1)) = (a + (k + 1)) % Cap
    <2>1. wrapping_add(a, 1) \in Cursors /\ k \in 0 .. Wrap /\ k + 1 \in 0 .. Wrap
      BY Distance
    <2> QED BY <2>1, MaskAdd
  <1>3. CASE a + 1 < Wrap
    BY <1>2, <1>3, AddWraps DEF Cursors
  <1>4. CASE a + 1 >= Wrap
    <2>1. wrapping_add(a, 1) + k = (a + (k + 1)) + Cap * (-q)
      BY <1>1, <1>4, AddWraps DEF Cursors
    <2>2. a + (k + 1) \in Int /\ -q \in Int
      BY <1>1 DEF Cursors
    <2>3. ((a + (k + 1)) + Cap * (-q)) % Cap = (a + (k + 1)) % Cap
      BY <2>2, ModShift, Zenon
    <2> QED BY <1>2, <2>1, <2>3
  <1> QED BY <1>3, <1>4 DEF Cursors

\* One capacity further is the same slot.
LEMMA IndexTurn ==
  ASSUME NEW a \in Cursors
  PROVE  mask(wrapping_add(a, Cap)) = mask(wrapping_add(a, 0))
  <1> USE SpscAssumption
  <1>1. /\ mask(wrapping_add(a, Cap)) = (a + Cap) % Cap
        /\ mask(wrapping_add(a, 0)) = (a + 0) % Cap
    BY MaskAdd
  <1>2. a \in Int /\ a + Cap = a + Cap * 1 /\ a + 0 = a
    BY DEF Cursors
  <1>3. (a + Cap * 1) % Cap = a % Cap
    BY <1>2, 1 \in Int, ModShift, Zenon
  <1> QED BY <1>1, <1>2, <1>3

(***************************************************************************)
(* The SPSC ring.                                                          *)
(***************************************************************************)
Size == wrapping_sub(head, tail)

\* Each thread's copy of the other's cursor lies between the true cursors, and
\* the copies it acts upon leave room for the slot it touches.
CursorInv ==
  /\ wrapping_sub(tail, p_tail) + Size = wrapping_sub(head, p_tail)
  /\ wrapping_sub(head, p_tail) <= Cap
  /\ p_pc = "written" => wrapping_sub(head, p_tail) < Cap
  /\ wrapping_sub(c_head, tail) + wrapping_sub(head, c_head) = Size
  /\ c_pc = "read" => c_head # tail

\* The slot k places after the tail, and whether it holds an item: the items
\* between the cursors, less the one moved out, and the one not yet published.
Slot(k)   == slots[mask(wrapping_add(tail, k))]
Filled(k) == \/ k < Size /\ (c_pc = "read" => k > 0)
             \/ k = Size /\ p_pc = "written"

SlotInv ==
  /\ \A k \in 0 .. Cap - 1 : Slot(k) = Uninit <=> ~Filled(k)
  /\ p_pc = "written" => slots[mask(head)] = {item}

SpscInv == TypeOK /\ CursorInv /\ SlotInv

\* The places after the tail are different slots; the first is the tail's, and
\* the one after the last item is the head's.
LEMMA SlotIndex ==
  ASSUME TypeOK
  PROVE  /\ \A i, j \in 0 .. Cap - 1 :
              mask(wrapping_add(tail, i)) = mask(wrapping_add(tail, j)) => i = j
         /\ \A i \in 0 .. Cap : mask(wrapping_add(tail, i)) \in 0 .. Cap - 1
         /\ wrapping_add(tail, 0) = tail
         /\ wrapping_add(tail, Size) = head
         /\ Size \in 0 .. Cap
  <1> USE SpscAssumption
  <1>1. ASSUME NEW i \in 0 .. Cap - 1, NEW j \in 0 .. Cap - 1,
               mask(wrapping_add(tail, i)) = mask(wrapping_add(tail, j))
        PROVE  i = j
    <2>1. (tail + i) % Cap = (tail + j) % Cap
      BY <1>1, MaskAdd DEF TypeOK
    <2>2. PICK a \in Int, b \in Int : a = tail + i /\ b = tail + j
      BY DEF TypeOK, Cursors
    <2>3. -Cap < a - b /\ a - b < Cap /\ a % Cap = b % Cap
      BY <2>1, <2>2 DEF TypeOK, Cursors
    <2>4. a = b
      BY <2>3, ModDistinct, Zenon
    <2> QED BY <2>2, <2>4 DEF TypeOK, Cursors
  <1>2. \A i \in 0 .. Cap : mask(wrapping_add(tail, i)) \in 0 .. Cap - 1
    BY MaskAdd DEF TypeOK
  <1>3. wrapping_add(tail, 0) = tail
    BY AddWraps DEF TypeOK, Cursors
  <1>4. wrapping_add(tail, Size) = head /\ Size \in 0 .. Cap
    BY Distance DEF TypeOK, Size
  <1> QED BY <1>1, <1>2, <1>3, <1>4

\* The cursors keep their order, though each thread acts on an old copy of the
\* other's: a copy only errs on the safe side.
LEMMA NextCursors ==
  ASSUME TypeOK, CursorInv, [Next]_vars
  PROVE  /\ CursorInv'
         /\ {head, tail, p_tail, c_head}' \subseteq Cursors
         /\ Size' <= Cap
  <1> USE SpscAssumption DEF Size
  <1>0. /\ head \in Cursors /\ tail \in Cursors /\ p_tail \in Cursors /\ c_head \in Cursors
        /\ wrapping_sub(head, tail) <= Cap
        /\ wrapping_sub(head, tail) \in 0 .. Wrap - 1
        /\ wrapping_sub(tail, p_tail) \in 0 .. Wrap - 1
        /\ wrapping_sub(head, p_tail) \in 0 .. Wrap - 1
        /\ wrapping_sub(c_head, tail) \in 0 .. Wrap - 1
        /\ wrapping_sub(head, c_head) \in 0 .. Wrap - 1
    BY Distance DEF TypeOK
  <1>1. CASE PushLoadTail
    <2>1. PICK n \in 0 .. wrapping_sub(tail, p_tail) : p_tail' = wrapping_add(p_tail, n)
      BY <1>1 DEF PushLoadTail, SinceLoad, wrapping_sub
    <2>2. n \in 0 .. Wrap /\ n \in 0 .. wrapping_sub(head, p_tail)
      BY <1>0 DEF CursorInv
    <2>3. /\ wrapping_sub(tail, p_tail') = wrapping_sub(tail, p_tail) - n
          /\ wrapping_sub(head, p_tail') = wrapping_sub(head, p_tail) - n
          /\ p_tail' \in Cursors
      BY <1>0, <2>1, <2>2, Distance
    <2> QED BY <1>0, <1>1, <2>2, <2>3 DEF PushLoadTail, CursorInv, consumer
  <1>2. CASE PushFull \/ PushWrite
    BY <1>0, <1>2 DEF PushFull, PushWrite, Full, CursorInv, consumer
  <1>3. CASE PushStoreHead
    <2>1. head' = wrapping_add(head, 1)
      BY <1>3 DEF PushStoreHead
    <2>2. /\ 1 \in 0 .. Wrap
          /\ 1 \in 0 .. Wrap - 1 - wrapping_sub(head, tail)
          /\ 1 \in 0 .. Wrap - 1 - wrapping_sub(head, p_tail)
          /\ 1 \in 0 .. Wrap - 1 - wrapping_sub(head, c_head)
      BY <1>0, <1>3 DEF PushStoreHead, CursorInv
    <2>3. /\ wrapping_sub(head', tail) = wrapping_sub(head, tail) + 1
          /\ wrapping_sub(head', p_tail) = wrapping_sub(head, p_tail) + 1
          /\ wrapping_sub(head', c_head) = wrapping_sub(head, c_head) + 1
          /\ head' \in Cursors
      BY <1>0, <2>1, <2>2, Distance
    <2> QED BY <1>0, <1>3, <2>3 DEF PushStoreHead, CursorInv, consumer
  <1>4. CASE PopLoadHead
    <2>1. PICK n \in 0 .. wrapping_sub(head, c_head) : c_head' = wrapping_add(c_head, n)
      BY <1>4 DEF PopLoadHead, SinceLoad, wrapping_sub
    <2>2. n \in 0 .. Wrap /\ n \in 0 .. Wrap - 1 - wrapping_sub(c_head, tail)
      BY <1>0 DEF CursorInv
    <2>3. /\ wrapping_sub(c_head', tail) = wrapping_sub(c_head, tail) + n
          /\ wrapping_sub(head, c_head') = wrapping_sub(head, c_head) - n
          /\ c_head' \in Cursors
      BY <1>0, <2>1, <2>2, Distance
    <2> QED BY <1>0, <1>4, <2>2, <2>3 DEF PopLoadHead, CursorInv, producer
  <1>5. CASE PopEmpty \/ PopRead
    BY <1>0, <1>5 DEF PopEmpty, PopRead, Empty, CursorInv, producer
  <1>6. CASE PopStoreTail
    <2>1. tail' = wrapping_add(tail, 1)
      BY <1>6 DEF PopStoreTail
    <2>2. wrapping_sub(c_head, tail) # 0
      BY <1>0, <1>6, Distance DEF PopStoreTail, CursorInv
    <2>3. /\ 1 \in 0 .. Wrap
          /\ 1 \in 0 .. wrapping_sub(head, tail)
          /\ 1 \in 0 .. wrapping_sub(c_head, tail)
          /\ 1 \in 0 .. Wrap - 1 - wrapping_sub(tail, p_tail)
      BY <1>0, <2>2 DEF CursorInv
    <2>4. /\ wrapping_sub(head, tail') = wrapping_sub(head, tail) - 1
          /\ wrapping_sub(c_head, tail') = wrapping_sub(c_head, tail) - 1
          /\ wrapping_sub(tail', p_tail) = wrapping_sub(tail, p_tail) + 1
          /\ tail' \in Cursors
      BY <1>0, <2>1, <2>3, Distance
    <2> QED BY <1>0, <1>6, <2>4 DEF PopStoreTail, CursorInv, producer
  <1>7. CASE UNCHANGED vars
    BY <1>0, <1>7 DEF vars, producer, consumer, CursorInv
  <1> QED BY <1>1, <1>2, <1>3, <1>4, <1>5, <1>6, <1>7 DEF Next

\* What the copies tell each thread: a producer that does not see the ring full
\* has room, a consumer that does not see it empty has an item.
LEMMA CursorFacts ==
  ASSUME TypeOK, CursorInv
  PROVE  /\ Size \in 0 .. Cap
         /\ ~Full \/ p_pc = "written" => Size < Cap
         /\ ~Empty \/ c_pc = "read" => Size > 0
  <1>1. /\ Size \in 0 .. Cap
        /\ wrapping_sub(tail, p_tail) \in 0 .. Wrap - 1
        /\ wrapping_sub(head, p_tail) \in 0 .. Wrap - 1
        /\ wrapping_sub(c_head, tail) \in 0 .. Wrap - 1
        /\ wrapping_sub(head, c_head) \in 0 .. Wrap - 1
        /\ wrapping_sub(c_head, tail) = 0 <=> c_head = tail
    BY Distance, SpscAssumption DEF TypeOK, Size
  <1> QED BY <1>1, SpscAssumption DEF CursorInv, Full, Empty

\* What the three accesses to the slots do, place by place: try_push writes the
\* slot after the last item, try_pop empties the first, and storing the tail
\* moves every place by one.
LEMMA PushWriteSlots ==
  ASSUME TypeOK, CursorInv, PushWrite
  PROVE  /\ Size \in 0 .. Cap - 1 /\ mask(head) = mask(wrapping_add(tail, Size))
         /\ mask(head) \in 0 .. Cap - 1
         /\ \A k \in 0 .. Cap - 1 : Slot(k)' = IF k = Size THEN {item} ELSE Slot(k)
  <1> USE SpscAssumption
  <1>1. UNCHANGED tail /\ slots' = [slots EXCEPT ![mask(head)] = {item}]
    BY DEF PushWrite, consumer
  <1>2. Size \in 0 .. Cap - 1 /\ mask(head) = mask(wrapping_add(tail, Size))
    BY SlotIndex, CursorFacts DEF PushWrite
  <1>3. mask(head) \in 0 .. Cap - 1
    BY <1>2, SlotIndex
  <1>4. DOMAIN slots = 0 .. Cap - 1
    BY DEF TypeOK
  <1>5. ASSUME NEW k \in 0 .. Cap - 1
        PROVE  Slot(k)' = IF k = Size THEN {item} ELSE Slot(k)
    <2>1. mask(wrapping_add(tail, k)) \in 0 .. Cap - 1
      BY SlotIndex
    <2>2. PICK x \in 0 .. Cap - 1 : x = mask(wrapping_add(tail, k))
      BY <2>1
    <2>3. x = mask(head) <=> k = Size
      BY <1>2, <2>2, SlotIndex
    <2>4. Slot(k) = slots[x] /\ Slot(k)' = slots'[x]
      BY <1>1, <2>2 DEF Slot
    <2> QED BY <1>1, <1>4, <2>3, <2>4
  <1> QED BY <1>2, <1>3, <1>5

\* Reading the oldest slot empties it and no other.
LEMMA PopReadSlots ==
  ASSUME TypeOK, CursorInv, PopRead
  PROVE  /\ Size \in 1 .. Cap
         /\ mask(tail) \in 0 .. Cap - 1 /\ mask(tail) = mask(wrapping_add(tail, 0))
         /\ \A k \in 0 .. Cap - 1 : Slot(k)' = IF k = 0 THEN Uninit ELSE Slot(k)
  <1> USE SpscAssumption
  <1>1. UNCHANGED tail /\ slots' = [slots EXCEPT ![mask(tail)] = Uninit]
    BY DEF PopRead
  <1>2. Size \in 1 .. Cap
    BY CursorFacts DEF PopRead
  <1>3. mask(tail) \in 0 .. Cap - 1 /\ mask(tail) = mask(wrapping_add(tail, 0))
    BY SlotIndex
  <1>4. DOMAIN slots = 0 .. Cap - 1
    BY DEF TypeOK
  <1>5. ASSUME NEW k \in 0 .. Cap - 1
        PROVE  Slot(k)' = IF k = 0 THEN Uninit ELSE Slot(k)
    <2>1. mask(wrapping_add(tail, k)) \in 0 .. Cap - 1
      BY SlotIndex
    <2>2. PICK x \in 0 .. Cap - 1 : x = mask(wrapping_add(tail, k))
      BY <2>1
    <2>3. x = mask(tail) <=> k = 0
      BY <1>3, <2>2, SlotIndex
    <2>4. Slot(k) = slots[x] /\ Slot(k)' = slots'[x]
      BY <1>1, <2>2 DEF Slot
    <2> QED BY <1>1, <1>4, <2>3, <2>4
  <1> QED BY <1>2, <1>3, <1>5

\* Storing the tail shifts every slot by one.
LEMMA PopStoreTailSlots ==
  ASSUME TypeOK, CursorInv, PopStoreTail
  PROVE  /\ Size \in 1 .. Cap /\ (p_pc = "written" => Size < Cap)
         /\ Size' = Size - 1
         /\ \A k \in 0 .. Cap - 2 : Slot(k)' = Slot(k + 1)
         /\ Slot(Cap - 1)' = Slot(0)
  <1> USE SpscAssumption
  <1>1. UNCHANGED <<head, slots>> /\ c_pc = "read" /\ tail' = wrapping_add(tail, 1)
    BY DEF PopStoreTail, producer
  <1>2. Size \in 1 .. Cap /\ (p_pc = "written" => Size < Cap)
    BY <1>1, CursorFacts
  <1>3. Size' = Size - 1
    BY <1>1, <1>2, Distance DEF TypeOK, Size
  <1>4. ASSUME NEW k \in 0 .. Cap - 1
        PROVE  mask(wrapping_add(tail', k)) = mask(wrapping_add(tail, k + 1))
    BY <1>1, IndexFurther DEF TypeOK
  <1>5. ASSUME NEW k \in 0 .. Cap - 2
        PROVE  Slot(k)' = Slot(k + 1)
    BY <1>1, <1>4 DEF Slot
  <1>6. Slot(Cap - 1)' = Slot(0)
    <2>1. mask(wrapping_add(tail, Cap)) = mask(wrapping_add(tail, 0))
      BY IndexTurn DEF TypeOK
    <2> QED BY <1>1, <1>4, <2>1, Cap - 1 \in 0 .. Cap - 1, (Cap - 1) + 1 = Cap DEF Slot
  <1> QED BY <1>2, <1>3, <1>5, <1>6

\* A slot holds an item just when it is between the cursors: try_push fills an
\* empty slot and try_pop empties a filled one.
LEMMA NextSlots ==
  ASSUME TypeOK, CursorInv, SlotInv, [Next]_vars
  PROVE  SlotInv' /\ slots' \in [0 .. Cap - 1 -> {{v} : v \in Values} \cup {Uninit}]
  <1> USE SpscAssumption
  <1> DEFINE Types(f) == f \in [0 .. Cap - 1 -> {{v} : v \in Values} \cup {Uninit}]
  <1>0. Types(slots)
    BY DEF TypeOK
  <1>1. CASE UNCHANGED <<head, tail, slots, c_pc, p_pc, item>>
    BY <1>0, <1>1 DEF SlotInv, Slot, Filled, Size
  <1>2. CASE PushLoadTail \/ PushFull
    <2>1. UNCHANGED <<head, tail, slots, c_pc>> /\ p_pc # "written" /\ p_pc' # "written"
      BY <1>2 DEF PushLoadTail, PushFull, consumer
    <2> QED BY <1>0, <2>1 DEF SlotInv, Slot, Filled, Size
  <1>3. CASE PushWrite
    <2>1. /\ UNCHANGED <<head, tail, c_pc, item>> /\ p_pc # "written" /\ p_pc' = "written"
          /\ slots' = [slots EXCEPT ![mask(head)] = {item}]
      BY <1>3 DEF PushWrite, consumer
    <2>2. ASSUME NEW k \in 0 .. Cap - 1
          PROVE  Filled(k)' <=> (k = Size \/ Filled(k))
      BY <2>1 DEF Filled, Size
    <2>3. slots'[mask(head')] = {item'} /\ Types(slots')
      BY <1>0, <1>3, <2>1, PushWriteSlots DEF TypeOK
    <2> QED BY <1>3, <2>2, <2>3, PushWriteSlots, Zenon DEF SlotInv, Uninit
  <1>4. CASE PushStoreHead
    <2>1. UNCHANGED <<tail, slots, c_pc>> /\ p_pc = "written" /\ p_pc' # "written"
      BY <1>4 DEF PushStoreHead, consumer
    <2>2. Size' = Size + 1 /\ Size \in 0 .. Cap
      <3>1. 1 \in 0 .. Wrap - 1 - wrapping_sub(head, tail)
        BY <2>1, CursorFacts DEF Size
      <3> QED BY <2>1, <3>1, <1>4, Distance, SlotIndex DEF PushStoreHead, TypeOK, Size
    <2>3. Size >= 1 \/ c_pc # "read"
      BY CursorFacts
    <2>4. ASSUME NEW k \in 0 .. Cap - 1
          PROVE  Filled(k)' <=> Filled(k)
      BY <2>1, <2>2, <2>3 DEF Filled
    <2>5. ASSUME NEW k \in 0 .. Cap - 1
          PROVE  Slot(k)' = Slot(k)
      BY <2>1 DEF Slot
    <2> QED BY <1>0, <2>1, <2>4, <2>5 DEF SlotInv
  <1>5. CASE PopLoadHead \/ PopEmpty
    <2>1. /\ UNCHANGED <<head, tail, slots, p_pc, item>> /\ c_pc # "read" /\ c_pc' # "read"
      BY <1>5 DEF PopLoadHead, PopEmpty, producer
    <2> QED BY <1>0, <2>1 DEF SlotInv, Slot, Filled, Size
  <1>6. CASE PopRead
    <2>1. /\ UNCHANGED <<head, tail, p_pc, item>> /\ c_pc # "read" /\ c_pc' = "read"
          /\ slots' = [slots EXCEPT ![mask(tail)] = Uninit]
      BY <1>6 DEF PopRead, producer
    <2>2. ASSUME NEW k \in 0 .. Cap - 1
          PROVE  Filled(k)' <=> (k > 0 /\ Filled(k))
      BY <1>6, <2>1, PopReadSlots DEF Filled, Size
    <2>3. ASSUME p_pc = "written"
          PROVE  slots'[mask(head)] = {item}
      <3>1. Size \in 1 .. Cap - 1
        BY <1>6, <2>3, PopReadSlots, CursorFacts
      <3>2. mask(head) # mask(tail)
        BY <3>1, SlotIndex, 0 \in 0 .. Cap - 1
      <3> QED BY <1>0, <2>1, <2>3, <3>2 DEF SlotInv
    <2>4. Types(slots')
      BY <1>0, <1>6, <2>1, PopReadSlots
    <2> QED BY <1>6, <2>1, <2>2, <2>3, <2>4, PopReadSlots DEF SlotInv
  <1>7. CASE PopStoreTail
    <2>1. /\ UNCHANGED <<head, slots, p_pc, item>> /\ c_pc = "read" /\ c_pc' # "read"
          /\ tail' = wrapping_add(tail, 1)
      BY <1>7 DEF PopStoreTail, producer
    <2>2. ASSUME NEW k \in 0 .. Cap - 2
          PROVE  Slot(k)' = Uninit <=> ~Filled(k)'
      <3>1. k + 1 \in 0 .. Cap - 1 /\ k \in 0 .. Cap - 1
        OBVIOUS
      <3>2. Filled(k)' <=> Filled(k + 1)
        BY <1>7, <2>1, <3>1, PopStoreTailSlots DEF Filled
      <3> QED BY <1>7, <3>1, <3>2, PopStoreTailSlots DEF SlotInv
    <2>3. Slot(Cap - 1)' = Uninit /\ ~Filled(Cap - 1)'
      <3>1. ~Filled(0)
        BY <1>7, <2>1, PopStoreTailSlots DEF Filled
      <3>2. ~Filled(Cap - 1)'
        BY <1>7, <2>1, PopStoreTailSlots DEF Filled
      <3> QED BY <1>7, <3>1, <3>2, PopStoreTailSlots, 0 \in 0 .. Cap - 1 DEF SlotInv
    <2>4. \A k \in 0 .. Cap - 1 : k \in 0 .. Cap - 2 \/ k = Cap - 1
      OBVIOUS
    <2> QED BY <1>0, <2>1, <2>2, <2>3, <2>4 DEF SlotInv
  <1> QED BY <1>1, <1>2, <1>3, <1>4, <1>5, <1>6, <1>7 DEF Next, vars, producer, consumer

\* Every step of either thread keeps the invariant of the ring.
LEMMA InitSpscInv == Init => SpscInv
  <1> SUFFICES ASSUME Init PROVE SpscInv
    OBVIOUS
  <1> USE SpscAssumption
  <1>1. 0 \in Cursors /\ wrapping_sub(0, 0) = 0
    BY SubWraps DEF Cursors
  <1>2. NoItem \in Values
    BY DEF NoItem
  <1>3. TypeOK /\ CursorInv
    BY <1>1, <1>2 DEF Init, TypeOK, CursorInv, Size
  <1>4. ASSUME NEW k \in 0 .. Cap - 1
        PROVE  Slot(k) = Uninit /\ ~Filled(k)
    BY <1>1, <1>3, SlotIndex DEF Init, Slot, Filled, Size
  <1> QED BY <1>3, <1>4 DEF Init, SpscInv, SlotInv

\* SpscInv is inductive.
LEMMA NextSpscInv ==
  ASSUME SpscInv, [Next]_vars
  PROVE  SpscInv'
  <1> USE DEF SpscInv
  <1>1. /\ CursorInv' /\ {head, tail, p_tail, c_head}' \subseteq Cursors /\ Size' <= Cap
        /\ SlotInv' /\ slots' \in [0 .. Cap - 1 -> {{v} : v \in Values} \cup {Uninit}]
    BY NextCursors, NextSlots
  <1>2. item' \in Values
    BY DEF TypeOK, Next, vars, producer, consumer, PushLoadTail, PushFull, PushWrite,
           PushStoreHead, PopLoadHead, PopEmpty, PopRead, PopStoreTail
  <1>3. got' \in Values
    <2>1. CASE PopRead
      <3>1. mask(tail) \in 0 .. Cap - 1
        BY SlotIndex, SpscAssumption, 0 \in 0 .. Cap
      <3>2. slots[mask(tail)] \in {{v} : v \in Values} \cup {Uninit}
        BY <3>1 DEF TypeOK
      <3> QED BY <2>1, <3>2 DEF PopRead
    <2> QED BY <2>1 DEF TypeOK, Next, vars, producer, consumer, PushLoadTail, PushFull,
              PushWrite, PushStoreHead, PopLoadHead, PopEmpty, PopStoreTail
  <1>4. p_pc' \in {"idle", "loaded", "written"} /\ c_pc' \in {"idle", "loaded", "read"}
    BY DEF TypeOK, Next, vars, producer, consumer, PushLoadTail, PushFull, PushWrite,
           PushStoreHead, PopLoadHead, PopEmpty, PopRead, PopStoreTail
  <1> QED BY <1>1, <1>2, <1>3, <1>4 DEF TypeOK, Size

\* What SpscInv says of the ring.
LEMMA SpscInvSafe ==
  ASSUME SpscInv
  PROVE  TypeOK /\ NoSlotRace /\ SlotsOwned
  <1> USE SpscAssumption DEF SpscInv
  <1>1. ASSUME ~Full
        PROVE  Size \in 0 .. Cap - 1
    BY <1>1, CursorFacts
  <1>2. mask(head) = mask(wrapping_add(tail, Size)) /\ mask(tail) = mask(wrapping_add(tail, 0))
    BY SlotIndex
  <1>3. NoSlotRace
    BY <1>1, <1>2, SlotIndex, CursorFacts, 0 \in 0 .. Cap - 1 DEF NoSlotRace
  <1>4. ASSUME c_pc = "loaded", ~Empty
        PROVE  slots[mask(tail)] # Uninit
    <2>1. Filled(0)
      BY <1>4, CursorFacts DEF Filled
    <2> QED BY <1>2, <2>1, 0 \in 0 .. Cap - 1 DEF SlotInv, Slot
  <1>5. ASSUME p_pc = "loaded", ~Full
        PROVE  slots[mask(head)] = Uninit
    <2>1. ~Filled(Size)
      BY <1>1, <1>5 DEF Filled
    <2> QED BY <1>1, <1>2, <1>5, <2>1 DEF SlotInv, Slot
  <1> QED BY <1>3, <1>4, <1>5 DEF SlotsOwned

\* The SPSC ring's unsafe accesses are sound for every capacity and across the
\* wrap of the cursors: the producer never writes the slot the consumer reads,
\* each item is moved out once and no slot is overwritten before.
THEOREM SpscRingSafe == Spec => [](TypeOK /\ NoSlotRace /\ SlotsOwned)
  <1>1. SpscInv /\ [Next]_vars => SpscInv'
    BY NextSpscInv
  <1>2. SpscInv => TypeOK /\ NoSlotRace /\ SlotsOwned
    BY SpscInvSafe
  <1> QED BY InitSpscInv, <1>1, <1>2, PTL DEF Spec

(***************************************************************************)
(* The SPSC ring implements the bounded FIFO.                              *)
(***************************************************************************)

\* The item in a slot that holds one; the places already moved out.
Item(k) == CHOOSE v \in Slot(k) : TRUE
Moved   == IF c_pc = "read" THEN 1 ELSE 0

\* A filled slot holds the item pushed there.
LEMMA FilledItem ==
  ASSUME SpscInv, NEW k \in 0 .. Cap - 1, Filled(k)
  PROVE  Slot(k) = {Item(k)} /\ Item(k) \in Values
  <1>1. Slot(k) \in {{v} : v \in Values}
    <2>1. mask(wrapping_add(tail, k)) \in 0 .. Cap - 1
      BY SlotIndex, SpscAssumption DEF SpscInv
    <2>2. Slot(k) \in {{v} : v \in Values} \cup {Uninit}
      BY <2>1 DEF SpscInv, TypeOK, Slot
    <2>3. Slot(k) # Uninit
      BY DEF SpscInv, SlotInv
    <2> QED BY <2>2, <2>3
  <1>2. PICK v \in Values : Slot(k) = {v}
    BY <1>1
  <1>3. Item(k) = v
    BY <1>2 DEF Item
  <1> QED BY <1>2, <1>3

\* The abstract queue, in terms of the places after the tail.
QueueItems ==
  /\ Size \in 0 .. Cap /\ Moved \in {0, 1} /\ Moved <= Size
  /\ Queue = [i \in 1 .. Size - Moved |-> Item(Moved + i - 1)]

\* The queue of the refinement lists the filled slots in order.
LEMMA QueueIs == SpscInv => QueueItems
  <1> SUFFICES ASSUME SpscInv PROVE QueueItems
    OBVIOUS
  <1> USE SpscAssumption DEF SpscInv
  <1>1. Moved <= Size /\ Pending = Size - Moved /\ Size \in 0 .. Cap /\ Moved \in {0, 1}
    BY CursorFacts DEF Moved, Pending, Size
  <1>2. ASSUME NEW i \in 1 .. Size - Moved
        PROVE  mask(wrapping_add(Oldest, i - 1)) = mask(wrapping_add(tail, Moved + i - 1))
    <2>1. CASE c_pc = "read"
      <3>1. i - 1 \in 0 .. Cap - 1 /\ (i - 1) + 1 = Moved + i - 1
        BY <1>1, <2>1 DEF Moved
      <3>2. tail \in Cursors
        BY DEF TypeOK
      <3> QED BY <2>1, <3>1, <3>2, IndexFurther DEF Oldest
    <2>2. CASE c_pc # "read"
      BY <1>1, <2>2 DEF Oldest, Moved
    <2> QED BY <2>1, <2>2
  <1>3. Queue = [i \in 1 .. Size - Moved |-> Item(Moved + i - 1)]
    BY <1>1, <1>2 DEF Queue, Item, Slot
  <1> QED BY <1>1, <1>3 DEF QueueItems

\* The same after a step.
LEMMA QueueIsNext == SpscInv' => QueueItems'
  BY QueueIs, PTL

\* Storing the head is Push, reading a slot is Pop, and no other step of either
\* thread changes the abstract queue.
LEMMA NextFifo ==
  ASSUME SpscInv, [Next]_vars
  PROVE  [Fifo!Push \/ Fifo!Pop]_<<Queue, got>>
  <1> USE SpscAssumption
  <1>0. QueueItems /\ QueueItems'
    BY NextSpscInv, QueueIs, QueueIsNext
  <1>1. CASE UNCHANGED <<head, tail, slots, got>> /\ (c_pc = "read" <=> c_pc' = "read")
    BY <1>1 DEF Queue, Pending, Oldest
  <1>2. CASE PushWrite
    <2>1. UNCHANGED <<head, tail, c_pc, got>>
      BY <1>2 DEF PushWrite, consumer
    <2>2. Size' = Size /\ Moved' = Moved
      BY <2>1 DEF Size, Moved
    <2>3. ASSUME NEW i \in 1 .. Size - Moved
          PROVE  Item(Moved + i - 1)' = Item(Moved + i - 1)
      <3>1. Moved + i - 1 \in 0 .. Cap - 1 /\ Moved + i - 1 # Size
        BY <1>0 DEF QueueItems
      <3> QED BY <1>2, <2>2, <3>1, PushWriteSlots DEF SpscInv, Item
    <2> QED BY <1>0, <2>1, <2>2, <2>3, Zenon DEF QueueItems
  <1>3. CASE PushStoreHead
    <2>1. UNCHANGED <<tail, slots, c_pc, got, item>> /\ p_pc = "written"
      BY <1>3 DEF PushStoreHead, consumer
    <2>2. Size' = Size + 1 /\ Size < Cap /\ Moved' = Moved
      <3>1. Size < Cap
        BY <2>1, CursorFacts DEF SpscInv
      <3>2. 1 \in 0 .. Wrap - 1 - wrapping_sub(head, tail)
        BY <3>1, CursorFacts DEF SpscInv, Size
      <3> QED BY <1>3, <2>1, <3>1, <3>2, Distance DEF PushStoreHead, SpscInv, TypeOK, Size, Moved
    <2>3. \A k \in 0 .. Cap - 1 : Item(k)' = Item(k)
      BY <2>1 DEF Item, Slot
    <2>4. Item(Size) = item
      <3>1. Slot(Size) = {item}
        BY <2>1, SlotIndex DEF SpscInv, SlotInv, Slot
      <3> QED BY <3>1 DEF Item
    <2>5. item \in Values
      BY DEF SpscInv, TypeOK
    <2>6. Queue' = Append(Queue, item)
      <3>1. Queue' = [i \in 1 .. Size + 1 - Moved |-> Item(Moved + i - 1)]
        BY <1>0, <2>2, <2>3 DEF QueueItems
      <3>2. PICK n \in Nat : n = Size - Moved
        BY <1>0 DEF QueueItems
      <3>3. Queue \in Seq(Values) /\ Len(Queue) = n
        <4>1. ASSUME NEW i \in 1 .. n
              PROVE  Item(Moved + i - 1) \in Values
          <5>1. Moved + i - 1 \in 0 .. Cap - 1
            BY <1>0, <3>2 DEF QueueItems
          <5>2. Filled(Moved + i - 1)
            BY <1>0, <3>2 DEF QueueItems, Filled, Moved
          <5> QED BY <5>1, <5>2, FilledItem
        <4> QED BY <1>0, <3>2, <4>1 DEF QueueItems
      <3>4. Size + 1 - Moved = n + 1 /\ Moved + (n + 1) - 1 = Size
        BY <1>0, <3>2 DEF QueueItems
      <3>5. ASSUME NEW i \in 1 .. n
            PROVE  Queue[i] = Queue'[i]
        <4>1. Queue[i] = Item(Moved + i - 1)
          BY <1>0, <3>2 DEF QueueItems
        <4>2. Queue'[i] = Item(Moved + i - 1)
          BY <3>1, <3>4
        <4> QED BY <4>1, <4>2
      <3>6. Queue'[n + 1] = item
        BY <3>1, <3>4, <2>4
      <3>7. Queue' \in [1 .. n + 1 -> Values]
        <4>1. ASSUME NEW i \in 1 .. n + 1
              PROVE  Queue'[i] \in Values
          <5>1. CASE i \in 1 .. n
            BY <3>3, <3>5, <5>1
          <5> QED BY <5>1, <3>6, <2>5
        <4> QED BY <3>1, <3>4, <4>1, Zenon
      <3> QED BY <3>3, <3>5, <3>6, <3>7, SeqExtended
    <2>7. Len(Queue) < Cap
      BY <1>0, <2>2 DEF QueueItems
    <2> QED BY <2>1, <2>5, <2>6, <2>7 DEF Fifo!Push
  <1>4. CASE PopRead
    <2>1. UNCHANGED <<head, tail>> /\ c_pc # "read" /\ c_pc' = "read"
      BY <1>4 DEF PopRead, producer
    <2>2. Size' = Size /\ Moved = 0 /\ Moved' = 1 /\ Size \in 1 .. Cap
      BY <1>4, <2>1, PopReadSlots DEF Size, Moved, SpscInv
    <2>3. ASSUME NEW i \in 1 .. Size - 1
          PROVE  Item(i)' = Item(i)
      BY <1>4, PopReadSlots DEF SpscInv, Item
    <2>4. got' = Item(0)
      <3>1. Filled(0)
        BY <2>1, <2>2 DEF Filled
      <3>2. slots[mask(tail)] = {Item(0)}
        BY <3>1, <1>4, FilledItem, PopReadSlots, 0 \in 0 .. Cap - 1 DEF SpscInv, Slot
      <3> QED BY <3>2, <1>4 DEF PopRead, Uninit
    <2>5. Queue = [i \in 1 .. Size |-> Item(i - 1)] /\ Size \in 1 .. Cap
      BY <1>0, <2>2 DEF QueueItems
    <2>6. Queue' = [i \in 1 .. Size - 1 |-> Item(i)]
      BY <1>0, <2>2, <2>3 DEF QueueItems
    <2>7. Queue # <<>> /\ Head(Queue) = Item(0) /\ Queue' = Tail(Queue)
      BY <2>2, <2>5, <2>6
    <2> QED BY <2>4, <2>7 DEF Fifo!Pop
  <1>5. CASE PopStoreTail
    <2>1. UNCHANGED got /\ c_pc = "read" /\ c_pc' # "read"
      BY <1>5 DEF PopStoreTail
    <2>2. Size' = Size - 1 /\ Moved = 1 /\ Moved' = 0 /\ Size \in 1 .. Cap
      BY <1>5, <2>1, PopStoreTailSlots DEF Moved, SpscInv
    <2>3. ASSUME NEW i \in 1 .. Size - 1
          PROVE  Item(i - 1)' = Item(i)
      BY <1>5, <2>2, PopStoreTailSlots, i - 1 \in 0 .. Cap - 2 DEF Item, SpscInv
    <2>4. Queue = [i \in 1 .. Size - 1 |-> Item(i)]
      BY <1>0, <2>2 DEF QueueItems
    <2>5. Queue' = [i \in 1 .. Size - 1 |-> Item(i)]
      BY <1>0, <2>2, <2>3 DEF QueueItems
    <2> QED BY <2>1, <2>4, <2>5
  <1> QED BY <1>1, <1>2, <1>3, <1>4, <1>5 DEF Next, vars, producer, consumer, PushLoadTail,
          PushFull, PopLoadHead, PopEmpty

\* Every behaviour of the two threads is one of a bounded FIFO, for every
\* capacity: try_push and try_pop lose, repeat, reorder and overwrite nothing,
\* also when the cursors wrap.
THEOREM SpscImplementsFifo == Spec => ImplementsFifo
  <1>1. Init => Fifo!Init
    <2> SUFFICES ASSUME Init PROVE Fifo!Init
      OBVIOUS
    <2>1. SpscInv
      BY InitSpscInv
    <2>2. Size = 0 /\ Moved = 0
      BY SubWraps, SpscAssumption DEF Init, Size, Moved, Cursors
    <2>3. Queue = <<>>
      BY <2>1, <2>2, QueueIs DEF QueueItems
    <2> QED BY <2>1, <2>3 DEF Fifo!Init, SpscInv, TypeOK
  <1>2. SpscInv /\ [Next]_vars => SpscInv'
    BY NextSpscInv
  <1>3. SpscInv /\ [Next]_vars => [Fifo!Push \/ Fifo!Pop]_<<Queue, got>>
    BY NextFifo
  <1> QED BY InitSpscInv, <1>1, <1>2, <1>3, PTL DEF Spec, ImplementsFifo, Fifo!Spec

(***************************************************************************)
(* The broadcast ring.                                                     *)
(***************************************************************************)

\* A set of cursors has a smallest one.
LEMMA SmallestCursor ==
  ASSUME NEW T \in SUBSET Nat, T # {}
  PROVE  Min(T) \in T /\ \A k \in T : Min(T) <= k
  <1> DEFINE R == OpToRel(<, Nat)
  <1>1. IsWellFoundedOn(R, Nat)
    BY NatLessThanWellFounded, Zenon
  <1>2. ASSUME NEW x \in Nat, NEW y \in Nat, ~(<<y, x>> \in R)
        PROVE  x <= y
    BY <1>2 DEF OpToRel
  <1> HIDE DEF R
  <1>3. PICK m \in T : \A k \in T : ~(<<k, m>> \in R)
    BY <1>1, WFMin, Zenon
  <1>4. \A k \in T : m <= k
    BY <1>2, <1>3, Zenon
  <1> QED BY <1>4, Zenon DEF Min

FanTypeOK ==
  /\ f_head \in Nat /\ f_tails \in [Consumers -> Nat] /\ f_seen \in [Consumers -> Nat]
  /\ f_slots \in [0 .. FanCap - 1 -> {{v} : v \in Items} \cup {{}}]
  /\ f_pc \in {"idle", "load", "check", "written"} /\ f_next \in Nat /\ f_item \in Items
  /\ r_pc \in [Consumers -> {"idle", "clone", "read"}]
  /\ r_head \in [Consumers -> Nat] /\ r_got \in [Consumers -> Items]

\* For each consumer: the tail the producer saw, its tail, the head it saw and
\* the head are in this order, and no more than FanCap apart.
FanCursorInv ==
  /\ f_pc = "load" => f_next \in Consumers
  /\ \A c \in Consumers :
       /\ f_seen[c] <= f_tails[c] /\ f_tails[c] <= r_head[c] /\ r_head[c] <= f_head
       /\ r_pc[c] # "idle" => f_tails[c] < r_head[c]
       /\ f_head - f_seen[c] <= FanCap
       /\ f_pc = "written" => f_head - f_seen[c] < FanCap

\* A slot once written stays so, and the one being published holds its item.
FanSlotInv ==
  /\ \A i \in 0 .. f_head - 1 : f_slots[fan_mask(i)] # {}
  /\ f_pc = "written" => f_slots[fan_mask(f_head)] = {f_item}

FanInv == FanTypeOK /\ FanCursorInv /\ FanSlotInv

\* The tail min_tail returns is behind every consumer's.
LEMMA MinTail ==
  ASSUME FanTypeOK
  PROVE  /\ \E c \in Consumers : min_tail = f_seen[c]
         /\ \A c \in Consumers : min_tail <= f_seen[c]
         /\ min_tail \in Nat
  <1> DEFINE T == {f_seen[c] : c \in Consumers}
  <1>1. 1 \in Consumers
    BY SpmcAssumption DEF Consumers
  <1>2. T \in SUBSET Nat /\ T # {}
    BY <1>1 DEF FanTypeOK
  <1>3. Min(T) \in T /\ \A k \in T : Min(T) <= k
    BY <1>2, SmallestCursor, Zenon
  <1> QED BY <1>2, <1>3, Zenon DEF min_tail

\* FanInv holds of an empty ring.
LEMMA InitFanInv == FanInit => FanInv
  <1> SUFFICES ASSUME FanInit PROVE FanInv
    OBVIOUS
  <1>1. NoFanItem \in Items
    BY SpmcAssumption DEF NoFanItem
  <1> QED BY <1>1, SpmcAssumption
          DEF FanInit, FanInv, FanTypeOK, FanCursorInv, FanSlotInv, Consumers

\* Indices of the slots, and those of fewer than FanCap consecutive items.
LEMMA FanMask ==
  /\ \A i \in Nat : fan_mask(i) \in 0 .. FanCap - 1
  /\ \A i, j \in Nat : i < j /\ j - i < FanCap => fan_mask(i) # fan_mask(j)
  <1>1. \A i \in Nat : fan_mask(i) \in 0 .. FanCap - 1
    BY DivMod, SpmcAssumption DEF fan_mask
  <1>2. ASSUME NEW i \in Nat, NEW j \in Nat, i < j, j - i < FanCap, fan_mask(i) = fan_mask(j)
        PROVE  FALSE
    <2>1. i \in Int /\ j \in Int /\ -FanCap < j - i /\ j % FanCap = i % FanCap
      BY <1>2, SpmcAssumption DEF fan_mask
    <2>2. j = i
      BY <1>2, <2>1, ModDistinct, SpmcAssumption, Zenon
    <2> QED BY <1>2, <2>2
  <1> QED BY <1>1, <1>2

\* A producer past its check writes a slot that no consumer has still to read:
\* the tails it saw may be old, but they only lag behind.
LEMMA FanHasRoom ==
  ASSUME FanTypeOK, FanCursorInv, f_pc = "check", f_head - min_tail # FanCap
  PROVE  \A c \in Consumers : /\ f_head - f_seen[c] < FanCap
                              /\ f_head - f_tails[c] < FanCap
  <1>1. PICK d \in Consumers : min_tail = f_seen[d]
    BY MinTail
  <1>2. f_head - min_tail < FanCap
    BY <1>1, SpmcAssumption DEF FanTypeOK, FanCursorInv
  <1>3. ASSUME NEW c \in Consumers
        PROVE  f_head - f_seen[c] < FanCap /\ f_head - f_tails[c] < FanCap
    <2>1. /\ min_tail \in Nat /\ f_seen[c] \in Nat /\ f_tails[c] \in Nat /\ f_head \in Nat
          /\ min_tail <= f_seen[c] /\ f_seen[c] <= f_tails[c]
      BY MinTail, Zenon DEF FanTypeOK, FanCursorInv
    <2> QED BY <1>2, <2>1, SpmcAssumption
  <1> QED BY <1>3

\* FanInv is inductive.
LEMMA NextFanInv ==
  ASSUME FanInv, [FanNext]_fan_vars
  PROVE  FanInv'
  <1> USE SpmcAssumption DEF FanInv
  <1>1. CASE FanCall
    <2>1. FanTypeOK' /\ FanSlotInv'
      BY <1>1, Zenon DEF FanCall, fan_consumer, FanTypeOK, FanSlotInv
    <2>2. FanCursorInv'
      BY <1>1 DEF FanCall, fan_consumer, FanTypeOK, FanCursorInv, Consumers
    <2> QED BY <2>1, <2>2
  <1>2. CASE FanLoadTail
    <2>1. PICK t \in f_seen[f_next] .. f_tails[f_next] : f_seen' = [f_seen EXCEPT ![f_next] = t]
      BY <1>2, Zenon DEF FanLoadTail
    <2>2. f_next \in Consumers /\ t \in Nat /\ f_seen[f_next] <= t /\ t <= f_tails[f_next]
      BY <1>2, <2>1 DEF FanLoadTail, FanCursorInv, FanTypeOK
    <2>3. UNCHANGED <<f_head, f_item, f_tails, r_pc, r_head, r_got, f_slots>>
      BY <1>2 DEF FanLoadTail, fan_consumer
    <2>4. FanTypeOK'
      BY <1>2, <2>1, <2>2, <2>3 DEF FanLoadTail, FanTypeOK
    <2>5. f_pc' # "written" /\ (f_pc' = "load" => f_next' \in Consumers)
      BY <1>2, <2>2 DEF FanLoadTail, Consumers
    <2>6. FanCursorInv'
      BY <2>1, <2>2, <2>3, <2>5 DEF FanCursorInv, FanTypeOK
    <2>7. FanSlotInv'
      BY <2>3, <2>5 DEF FanSlotInv
    <2> QED BY <2>4, <2>6, <2>7
  <1>3. CASE FanFull
    BY <1>3, Zenon DEF FanFull, fan_consumer, FanTypeOK, FanCursorInv, FanSlotInv
  <1>4. CASE FanWrite
    <2>1. /\ f_slots' = [f_slots EXCEPT ![fan_mask(f_head)] = {f_item}]
          /\ f_pc' = "written"
          /\ UNCHANGED <<f_head, f_next, f_seen, f_item, f_tails, r_pc, r_head, r_got>>
      BY <1>4 DEF FanWrite, fan_consumer
    <2>2. fan_mask(f_head) \in 0 .. FanCap - 1 /\ \A i \in Nat : fan_mask(i) \in 0 .. FanCap - 1
      BY FanMask DEF FanTypeOK
    <2>3. FanTypeOK'
      BY <2>1, <2>2, Zenon DEF FanTypeOK
    <2>4. FanCursorInv'
      BY <1>4, <2>1, FanHasRoom DEF FanWrite, FanCursorInv
    <2>5. FanSlotInv'
      <3>1. ASSUME NEW i \in 0 .. f_head - 1
            PROVE  f_slots'[fan_mask(i)] # {}
        <4>1. f_slots[fan_mask(i)] # {}
          BY DEF FanSlotInv
        <4>2. DOMAIN f_slots = 0 .. FanCap - 1
          BY DEF FanTypeOK
        <4>3. fan_mask(i) \in DOMAIN f_slots
          BY <2>2, <4>2
        <4>4. {f_item} # {}
          OBVIOUS
        <4>5. CASE fan_mask(i) = fan_mask(f_head)
          BY <2>1, <4>3, <4>4, <4>5
        <4>6. CASE fan_mask(i) # fan_mask(f_head)
          BY <2>1, <4>1, <4>3, <4>6
        <4> QED BY <4>5, <4>6
      <3>2. f_slots'[fan_mask(f_head)] = {f_item}
        BY <2>1, <2>2 DEF FanTypeOK
      <3> QED BY <2>1, <3>1, <3>2 DEF FanSlotInv
    <2> QED BY <2>3, <2>4, <2>5
  <1>5. CASE FanStoreHead
    <2>1. /\ f_pc = "written" /\ f_pc' = "idle" /\ f_head' = f_head + 1
          /\ UNCHANGED <<f_next, f_seen, f_item, f_tails, r_pc, r_head, r_got, f_slots>>
      BY <1>5 DEF FanStoreHead, fan_consumer
    <2>2. FanTypeOK'
      <3>1. f_head' \in Nat
        BY <2>1 DEF FanTypeOK
      <3> QED BY <2>1, <3>1, Zenon DEF FanTypeOK
    <2>3. FanCursorInv'
      BY <2>1 DEF FanTypeOK, FanCursorInv
    <2>4. ASSUME NEW i \in 0 .. f_head
          PROVE  f_slots[fan_mask(i)] # {}
      <3>1. f_slots[fan_mask(f_head)] # {}
        BY <2>1 DEF FanSlotInv
      <3>2. i \in 0 .. f_head - 1 \/ i = f_head
        BY DEF FanTypeOK
      <3> QED BY <3>1, <3>2 DEF FanSlotInv
    <2>5. FanSlotInv'
      <3>1. 0 .. f_head' - 1 = 0 .. f_head
        BY <2>1 DEF FanTypeOK
      <3> QED BY <2>1, <2>4, <3>1, Zenon DEF FanSlotInv
    <2> QED BY <2>2, <2>3, <2>5
  <1>6. ASSUME NEW c \in Consumers, FanLoadHead(c)
        PROVE  FanInv'
    <2>1. PICK h \in r_head[c] .. f_head :
            /\ r_head' = [r_head EXCEPT ![c] = h]
            /\ r_pc' = [r_pc EXCEPT ![c] = IF h = f_tails[c] THEN "idle" ELSE "clone"]
      BY <1>6, Zenon DEF FanLoadHead
    <2>2. UNCHANGED <<f_head, f_pc, f_next, f_seen, f_item, f_tails, r_got, f_slots>>
      BY <1>6 DEF FanLoadHead, fan_producer
    <2>3. h \in Nat /\ r_head[c] <= h /\ h <= f_head
      BY <2>1 DEF FanTypeOK
    <2>4. FanTypeOK'
      BY <2>1, <2>2, <2>3, Zenon DEF FanTypeOK
    <2>5. FanCursorInv'
      BY <2>1, <2>2, <2>3 DEF FanTypeOK, FanCursorInv
    <2>6. FanSlotInv'
      BY <2>2 DEF FanSlotInv
    <2> QED BY <2>4, <2>5, <2>6
  <1>7. ASSUME NEW c \in Consumers, FanClone(c)
        PROVE  FanInv'
    <2>1. UNCHANGED <<f_head, f_pc, f_next, f_seen, f_item, f_tails, r_head, f_slots>>
      BY <1>7 DEF FanClone, fan_producer
    <2>2. r_pc[c] = "clone" /\ r_pc' = [r_pc EXCEPT ![c] = "read"]
      BY <1>7 DEF FanClone
    <2>3. f_slots[fan_mask(f_tails[c])] \in {{v} : v \in Items} \cup {{}}
      BY FanMask, Zenon DEF FanTypeOK
    <2>4. \E v \in Items : r_got' = [r_got EXCEPT ![c] = v]
      BY <1>7, <2>3, Zenon DEF FanClone
    <2>5. FanTypeOK'
      BY <2>1, <2>2, <2>4 DEF FanTypeOK
    <2>6. FanCursorInv'
      BY <2>1, <2>2 DEF FanTypeOK, FanCursorInv
    <2>7. FanSlotInv'
      BY <2>1 DEF FanSlotInv
    <2> QED BY <2>5, <2>6, <2>7
  <1>8. ASSUME NEW c \in Consumers, FanStoreTail(c)
        PROVE  FanInv'
    <2>1. UNCHANGED <<f_head, f_pc, f_next, f_seen, f_item, r_head, r_got, f_slots>>
      BY <1>8 DEF FanStoreTail, fan_producer
    <2>2. /\ r_pc[c] = "read" /\ r_pc' = [r_pc EXCEPT ![c] = "idle"]
          /\ f_tails' = [f_tails EXCEPT ![c] = f_tails[c] + 1]
      BY <1>8 DEF FanStoreTail
    <2>3. FanTypeOK'
      BY <2>1, <2>2 DEF FanTypeOK
    <2>4. FanCursorInv'
      BY <2>1, <2>2 DEF FanTypeOK, FanCursorInv
    <2>5. FanSlotInv'
      BY <2>1 DEF FanSlotInv
    <2> QED BY <2>3, <2>4, <2>5
  <1>9. CASE UNCHANGED fan_vars
    BY <1>9, Zenon DEF fan_vars, fan_producer, fan_consumer, FanTypeOK, FanCursorInv, FanSlotInv
  <1> QED BY <1>1, <1>2, <1>3, <1>4, <1>5, <1>6, <1>7, <1>8, <1>9 DEF FanNext

\* The broadcast ring's producer never writes a slot that a consumer has still
\* to clone, however old the tails are that min_tail saw: the SAFETY comment
\* of try_push in spmc.rs, for any number of consumers.
THEOREM SpmcRingSafe == FanSpec => []NoSlotOverwritten
  <1>1. FanInv /\ [FanNext]_fan_vars => FanInv'
    BY NextFanInv
  <1>2. FanInv => NoSlotOverwritten
    BY FanHasRoom DEF FanInv, NoSlotOverwritten
  <1> QED BY InitFanInv, <1>1, <1>2, PTL DEF FanSpec

\* The unsafe accesses of both rings are sound.
THEOREM RingsAlwaysSafe == Spec /\ FanSpec => []RingsSafe
  BY SpscRingSafe, SpmcRingSafe, PTL DEF RingsSafe

(***************************************************************************)
(* The broadcast ring implements one FIFO per consumer.                    *)
(***************************************************************************)

\* The i-th item published, as long as its slot has not been written again.
FanItem(i) == CHOOSE v \in f_slots[fan_mask(i)] : TRUE

\* What a consumer has still to receive is between its cursor and the head.
BacklogItems ==
  /\ \A i \in 0 .. f_head - 1 : f_slots[fan_mask(i)] = {FanItem(i)} /\ FanItem(i) \in Items
  /\ \A c \in Consumers :
       /\ Received(c) \in 0 .. f_head /\ f_tails[c] <= Received(c)
       /\ r_pc[c] = "clone" => Received(c) < f_head
       /\ Backlog(c) = [k \in 1 .. f_head - Received(c) |-> FanItem(Received(c) + k - 1)]
       /\ Backlog(c) \in Seq(Items) /\ Len(Backlog(c)) = f_head - Received(c)

\* A consumer's backlog lists the slots between its cursor and the head.
LEMMA BacklogIs == FanInv => BacklogItems
  <1> SUFFICES ASSUME FanInv PROVE BacklogItems
    OBVIOUS
  <1> USE SpmcAssumption DEF FanInv
  <1>1. ASSUME NEW i \in 0 .. f_head - 1
        PROVE  f_slots[fan_mask(i)] = {FanItem(i)} /\ FanItem(i) \in Items
    <2>1. i \in Nat
      OBVIOUS
    <2>2. fan_mask(i) \in 0 .. FanCap - 1
      BY <2>1, FanMask
    <2>3. f_slots[fan_mask(i)] \in {{v} : v \in Items} \cup {{}}
      BY <2>2, Zenon DEF FanTypeOK
    <2>4. f_slots[fan_mask(i)] # {}
      BY DEF FanSlotInv
    <2>5. PICK v \in Items : f_slots[fan_mask(i)] = {v}
      BY <2>3, <2>4
    <2> QED BY <2>5 DEF FanItem
  <1>2. ASSUME NEW c \in Consumers
        PROVE  /\ Received(c) \in 0 .. f_head /\ f_tails[c] <= Received(c)
               /\ r_pc[c] = "clone" => Received(c) < f_head
    BY DEF Received, FanCursorInv, FanTypeOK
  <1>3. ASSUME NEW c \in Consumers
        PROVE  /\ Backlog(c) = [k \in 1 .. f_head - Received(c) |-> FanItem(Received(c) + k - 1)]
               /\ Backlog(c) \in Seq(Items) /\ Len(Backlog(c)) = f_head - Received(c)
    <2>1. PICK n \in Nat : n = f_head - Received(c)
      BY <1>2 DEF FanTypeOK
    <2>2. Backlog(c) = [k \in 1 .. n |-> FanItem(Received(c) + k - 1)]
      BY <2>1 DEF Backlog, FanItem
    <2>3. ASSUME NEW k \in 1 .. n
          PROVE  FanItem(Received(c) + k - 1) \in Items
      <3>1. Received(c) + k - 1 \in 0 .. f_head - 1
        BY <1>2, <2>1 DEF FanTypeOK
      <3> QED BY <1>1, <3>1
    <2>4. Backlog(c) \in Seq(Items) /\ Len(Backlog(c)) = n
      BY <2>2, <2>3
    <2> QED BY <2>1, <2>2, <2>4
  <1> QED BY <1>1, <1>2, <1>3 DEF BacklogItems

\* The same after a step.
LEMMA BacklogIsNext == FanInv' => BacklogItems'
  BY BacklogIs, PTL

\* Storing the head is Publish, cloning a slot is Receive, and no other step of
\* any thread changes what a consumer has still to receive.
LEMMA NextBroadcast ==
  ASSUME FanInv, [FanNext]_fan_vars
  PROVE  [Broadcast!Publish \/ Broadcast!Receive]_<<Backlogs, r_got>>
  <1> USE SpmcAssumption
  <1>0. FanInv' /\ BacklogItems /\ BacklogItems' /\ f_head \in Nat
    BY NextFanInv, BacklogIs, BacklogIsNext, Zenon DEF FanInv, FanTypeOK
  <1>7. ASSUME NEW c \in Consumers
        PROVE  /\ Received(c) \in 0 .. f_head /\ f_tails[c] <= Received(c)
               /\ r_pc[c] = "clone" => Received(c) < f_head
    BY <1>0 DEF BacklogItems
  <1>1. CASE /\ UNCHANGED <<f_head, f_slots, r_got>>
             /\ \A c \in Consumers : Received(c)' = Received(c)
    BY <1>1 DEF Backlogs, Backlog
  <1>2. CASE FanWrite
    <2>1. /\ f_slots' = [f_slots EXCEPT ![fan_mask(f_head)] = {f_item}]
          /\ UNCHANGED <<f_head, f_tails, r_pc, r_got>>
      BY <1>2 DEF FanWrite, fan_consumer
    <2>2. ASSUME NEW c \in Consumers
          PROVE  Backlog(c)' = Backlog(c)
      <3>1. Received(c)' = Received(c)
        BY <2>1 DEF Received
      <3>2. ASSUME NEW i \in Received(c) .. f_head - 1
            PROVE  f_slots'[fan_mask(i)] = f_slots[fan_mask(i)]
        <4>1. f_head - f_tails[c] < FanCap
          BY <1>2, FanHasRoom DEF FanWrite, FanInv
        <4>0. /\ f_tails[c] \in Nat /\ Received(c) \in 0 .. f_head
              /\ f_tails[c] <= Received(c)
          BY <1>0 DEF BacklogItems, FanInv, FanTypeOK
        <4>2. i \in Nat /\ i < f_head /\ f_head - i < FanCap
          BY <1>0, <4>0, <4>1
        <4>3. fan_mask(i) # fan_mask(f_head)
          BY <1>0, <4>2, FanMask
        <4> QED BY <2>1, <4>3
      <3>3. ASSUME NEW k \in 1 .. f_head - Received(c)
            PROVE  f_slots'[fan_mask(Received(c) + k - 1)] = f_slots[fan_mask(Received(c) + k - 1)]
        <4>1. Received(c) + k - 1 \in Received(c) .. f_head - 1
          BY <1>0, <1>7
        <4> QED BY <3>2, <4>1
      <3> QED BY <2>1, <3>1, <3>3 DEF Backlog
    <2> QED BY <2>1, <2>2 DEF Backlogs
  <1>3. CASE FanStoreHead
    <2>1. /\ f_pc = "written" /\ f_head' = f_head + 1 /\ UNCHANGED <<f_tails, r_pc, r_got, f_slots>>
      BY <1>3 DEF FanStoreHead, fan_consumer
    <2>2. FanItem(f_head) = f_item /\ f_item \in Items
      BY <2>1 DEF FanItem, FanInv, FanSlotInv, FanTypeOK
    <2>3. ASSUME NEW c \in Consumers
          PROVE  /\ Backlog(c)' = Append(Backlog(c), f_item)
                 /\ Len(Backlog(c)) < FanCap
      <3>1. Received(c)' = Received(c) /\ Received(c) \in 0 .. f_head
        BY <1>0, <2>1 DEF Received, BacklogItems
      <3>2. PICK n \in Nat : n = f_head - Received(c)
        BY <1>0, <3>1
      <3>3. Backlog(c) \in Seq(Items) /\ Len(Backlog(c)) = n
        BY <1>0, <3>2 DEF BacklogItems
      <3>4. Backlog(c)' = [k \in 1 .. n + 1 |-> FanItem(Received(c) + k - 1)]
        <4>1. f_head' - Received(c)' = n + 1
          BY <1>0, <2>1, <3>1, <3>2
        <4> QED BY <2>1, <3>1, <4>1 DEF Backlog, FanItem
      <3>5. ASSUME NEW k \in 1 .. n
            PROVE  Backlog(c)[k] = Backlog(c)'[k]
        <4>1. Backlog(c) = [j \in 1 .. n |-> FanItem(Received(c) + j - 1)]
          BY <1>0, <3>2 DEF BacklogItems
        <4>2. k \in 1 .. n + 1
          OBVIOUS
        <4> QED BY <3>4, <4>1, <4>2
      <3>6. Backlog(c)'[n + 1] = f_item
        <4>1. Received(c) + (n + 1) - 1 = f_head
          BY <1>0, <3>1, <3>2
        <4> QED BY <2>2, <3>4, <4>1
      <3>7. Backlog(c)' \in [1 .. n + 1 -> Items]
        <4>1. ASSUME NEW k \in 1 .. n + 1
              PROVE  Backlog(c)'[k] \in Items
          <5>1. CASE k \in 1 .. n
            BY <3>3, <3>5, <5>1
          <5> QED BY <5>1, <2>2, <3>6
        <4> QED BY <3>4, <4>1
      <3>8. n < FanCap
        <4>1. f_tails[c] <= Received(c)
          BY <1>0 DEF BacklogItems
        <4>2. /\ f_head - f_seen[c] < FanCap /\ f_seen[c] <= f_tails[c]
              /\ f_seen[c] \in Nat /\ f_tails[c] \in Nat
          BY <2>1 DEF FanInv, FanCursorInv, FanTypeOK
        <4> QED BY <1>0, <3>1, <3>2, <4>1, <4>2
      <3> QED BY <3>3, <3>5, <3>6, <3>7, <3>8, SeqExtended
    <2>4. Backlogs' = [c \in Consumers |-> Append(Backlogs[c], f_item)]
      BY <2>3 DEF Backlogs
    <2>5. \A c \in Consumers : Len(Backlogs[c]) < FanCap
      BY <2>3 DEF Backlogs
    <2> QED BY <2>1, <2>2, <2>4, <2>5 DEF Broadcast!Publish
  <1>4. ASSUME NEW c \in Consumers, FanClone(c)
        PROVE  Broadcast!Receive
    <2>1. /\ r_pc[c] = "clone" /\ r_pc' = [r_pc EXCEPT ![c] = "read"]
          /\ UNCHANGED <<f_head, f_tails, f_slots>>
      BY <1>4 DEF FanClone, fan_producer
    <2>2. /\ Received(c) = f_tails[c] /\ Received(c)' = Received(c) + 1
          /\ \A d \in Consumers \ {c} : Received(d)' = Received(d)
      BY <2>1 DEF Received, FanInv, FanTypeOK
    <2>3. Received(c) \in 0 .. f_head - 1
      BY <1>0, <1>7, <2>1
    <2>4. r_got' = [r_got EXCEPT ![c] = FanItem(Received(c))]
      <3>1. f_slots[fan_mask(f_tails[c])] = {FanItem(Received(c))}
        BY <1>0, <2>2, <2>3 DEF BacklogItems
      <3> QED BY <1>4, <3>1, Zenon DEF FanClone
    <2>5. Backlog(c) # <<>> /\ Head(Backlog(c)) = FanItem(Received(c))
      <3>1. PICK n \in Nat \ {0} : n = f_head - Received(c)
        BY <1>0, <2>3
      <3>2. Backlog(c) = [k \in 1 .. n |-> FanItem(Received(c) + k - 1)]
        BY <1>0, <3>1 DEF BacklogItems
      <3>3. Backlog(c) \in Seq(Items) /\ Len(Backlog(c)) = n
        BY <1>0, <3>1 DEF BacklogItems
      <3>4. Backlog(c)[1] = FanItem(Received(c))
        <4>1. 1 \in 1 .. n /\ Received(c) + 1 - 1 = Received(c)
          BY <2>3
        <4> QED BY <3>2, <4>1
      <3> QED BY <3>3, <3>4
    <2>6. Backlog(c)' = Tail(Backlog(c))
      <3>1. PICK n \in Nat \ {0} : n = f_head - Received(c)
        BY <1>0, <2>3
      <3>2. Backlog(c) = [k \in 1 .. n |-> FanItem(Received(c) + k - 1)]
        BY <1>0, <3>1 DEF BacklogItems
      <3>3. Backlog(c)' = [k \in 1 .. n - 1 |-> FanItem(Received(c) + 1 + k - 1)]
        <4>1. f_head' - Received(c)' = n - 1
          BY <1>0, <2>1, <2>2, <2>3, <3>1
        <4> QED BY <2>1, <2>2, <4>1 DEF Backlog, FanItem
      <3>4. ASSUME NEW k \in 1 .. n - 1
            PROVE  Backlog(c)[k + 1] = Backlog(c)'[k]
        <4>1. k + 1 \in 1 .. n /\ Received(c) + (k + 1) - 1 = Received(c) + 1 + k - 1
          BY <2>3
        <4> QED BY <3>2, <3>3, <4>1
      <3>5. PICK f, g : f = Backlog(c) /\ g = Backlog(c)'
        OBVIOUS
      <3>6. f \in [1 .. n -> Items]
        <4>1. Backlog(c) \in Seq(Items) /\ Len(Backlog(c)) = n
          BY <1>0, <3>1 DEF BacklogItems
        <4> QED BY <3>5, <4>1
      <3>7. \A k \in 1 .. n - 1 : f[k + 1] = g[k]
        BY <3>4, <3>5
      <3>8. g \in [1 .. n - 1 -> Items]
        BY <3>3, <3>5, <3>6, <3>7
      <3>9. g = Tail(f)
        BY <3>6, <3>7, <3>8, SeqTail
      <3> QED BY <3>5, <3>9
    <2>7. ASSUME NEW d \in Consumers \ {c}
          PROVE  Backlog(d)' = Backlog(d)
      BY <2>1, <2>2 DEF Backlog
    <2>8. Backlogs' = [Backlogs EXCEPT ![c] = Tail(Backlogs[c])]
      BY <2>6, <2>7, Zenon DEF Backlogs
    <2>9. Backlogs[c] = Backlog(c)
      BY DEF Backlogs
    <2> QED BY <2>4, <2>5, <2>8, <2>9, Zenon DEF Broadcast!Receive
  <1>5. ASSUME NEW c \in Consumers, FanLoadHead(c) \/ FanStoreTail(c)
        PROVE  /\ UNCHANGED <<f_head, f_slots, r_got>>
               /\ \A d \in Consumers : Received(d)' = Received(d)
    <2>0. r_pc \in [Consumers -> {"idle", "clone", "read"}] /\ f_tails \in [Consumers -> Nat]
      BY DEF FanInv, FanTypeOK
    <2>1. CASE FanLoadHead(c)
      BY <2>0, <2>1 DEF FanLoadHead, fan_producer, Received
    <2>2. CASE FanStoreTail(c)
      BY <2>0, <2>2 DEF FanStoreTail, fan_producer, Received
    <2> QED BY <1>5, <2>1, <2>2
  <1>6. ASSUME FanCall \/ FanLoadTail \/ FanFull \/ UNCHANGED fan_vars
        PROVE  /\ UNCHANGED <<f_head, f_slots, r_got>>
               /\ \A d \in Consumers : Received(d)' = Received(d)
    BY <1>6 DEF FanCall, FanLoadTail, FanFull, fan_vars, fan_producer, fan_consumer, Received
  <1> QED BY <1>1, <1>2, <1>3, <1>4, <1>5, <1>6 DEF FanNext

\* Each consumer of the broadcast ring sees a bounded FIFO of everything that
\* was published, whatever the other consumers do and however many there are.
THEOREM SpmcImplementsBroadcast == FanSpec => ImplementsBroadcast
  <1>1. FanInit => Broadcast!Init
    <2> SUFFICES ASSUME FanInit PROVE Broadcast!Init
      OBVIOUS
    <2>1. FanInv /\ BacklogItems
      BY InitFanInv, BacklogIs
    <2>2. ASSUME NEW c \in Consumers
          PROVE  Backlog(c) = <<>>
      BY DEF FanInit, Backlog, Received
    <2> QED BY <2>1, <2>2 DEF Broadcast!Init, Backlogs, FanInv, FanTypeOK
  <1>2. FanInv /\ [FanNext]_fan_vars => FanInv'
    BY NextFanInv
  <1>3. FanInv /\ [FanNext]_fan_vars => [Broadcast!Publish \/ Broadcast!Receive]_<<Backlogs, r_got>>
    BY NextBroadcast
  <1> QED BY InitFanInv, <1>1, <1>2, <1>3, PTL DEF FanSpec, ImplementsBroadcast, Broadcast!Spec

==============================================================================
