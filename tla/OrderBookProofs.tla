-------------------------- MODULE OrderBookProofs --------------------------
(***************************************************************************)
(* Proofs about OrderBook, for every ladder, capacity and set of inputs.   *)
(***************************************************************************)
EXTENDS OrderBook, SequenceTheorems, TLAPS

(***************************************************************************)
(* Sequences.                                                              *)
(***************************************************************************)

\* Removing position i closes the gap and keeps the order of the rest: what
\* PriceLevel::remove does to the FIFO.
LEMMA WithoutProperties ==
  ASSUME NEW S, NEW s \in Seq(S), NEW i \in 1 .. Len(s)
  PROVE  /\ Without(s, i) \in Seq(S)
         /\ Len(Without(s, i)) = Len(s) - 1
         /\ \A p \in 1 .. Len(s) - 1 :
              Without(s, i)[p] = IF p < i THEN s[p] ELSE s[p + 1]
  <1> DEFINE front == SubSeq(s, 1, i - 1)
             back  == SubSeq(s, i + 1, Len(s))
  <1>1. /\ front \in Seq(S) /\ Len(front) = i - 1
        /\ \A p \in 1 .. i - 1 : front[p] = s[p]
    OBVIOUS
  <1>2. /\ back \in Seq(S) /\ Len(back) = Len(s) - i
        /\ \A p \in 1 .. Len(s) - i : back[p] = s[p + i]
    OBVIOUS
  <1>3. Without(s, i) = front \o back
    BY DEF Without
  <1> HIDE DEF front, back
  <1>4. front \o back \in Seq(S) /\ Len(front \o back) = Len(s) - 1
    <2>1. front \o back \in Seq(S) /\ Len(front \o back) = Len(front) + Len(back)
      BY <1>1, <1>2, ConcatProperties, Zenon
    <2>2. Len(s) \in Nat /\ (i - 1) + (Len(s) - i) = Len(s) - 1
      OBVIOUS
    <2> QED BY <1>1, <1>2, <2>1, <2>2
  <1>5. ASSUME NEW p \in 1 .. Len(s) - 1
        PROVE  (front \o back)[p] = IF p < i THEN s[p] ELSE s[p + 1]
    <2>1. CASE p < i
      BY <1>1, <1>2, <2>1, ConcatProperties
    <2>2. CASE ~(p < i)
      <3>1. (front \o back)[p] = back[p - (i - 1)]
        BY <1>1, <1>2, <2>2, ConcatProperties
      <3>2. p - (i - 1) \in 1 .. Len(s) - i /\ (p - (i - 1)) + i = p + 1
        BY <2>2
      <3> QED BY <1>2, <2>2, <3>1, <3>2
    <2> QED BY <2>1, <2>2, Zenon
  <1> QED
    BY <1>3, <1>4, <1>5

\* A strictly increasing sequence stays so, and loses exactly the element
\* removed from its range.
LEMMA WithoutIncreasing ==
  ASSUME NEW s \in Seq(Ids), NEW i \in 1 .. Len(s),
         \A p, q \in 1 .. Len(s) : p < q => s[p] < s[q]
  PROVE  /\ \A p, q \in 1 .. Len(Without(s, i)) :
              p < q => Without(s, i)[p] < Without(s, i)[q]
         /\ Range(Without(s, i)) = Range(s) \ {s[i]}
  <1> DEFINE r == Without(s, i)
  <1>1. /\ r \in Seq(Ids) /\ Len(r) = Len(s) - 1
        /\ \A p \in 1 .. Len(s) - 1 : r[p] = IF p < i THEN s[p] ELSE s[p + 1]
    BY WithoutProperties
  <1> HIDE DEF r
  <1>2. \A p, q \in 1 .. Len(r) : p < q => r[p] < r[q]
    <2> SUFFICES ASSUME NEW p \in 1 .. Len(r), NEW q \in 1 .. Len(r), p < q
                 PROVE  r[p] < r[q]
      OBVIOUS
    <2>1. Len(s) \in Nat /\ Len(r) = Len(s) - 1
      BY <1>1
    <2>2. r[p] = IF p < i THEN s[p] ELSE s[p + 1]
      BY <1>1, <2>1
    <2>3. r[q] = IF q < i THEN s[q] ELSE s[q + 1]
      BY <1>1, <2>1
    <2>4. /\ p \in 1 .. Len(s) /\ p + 1 \in 1 .. Len(s)
          /\ q \in 1 .. Len(s) /\ q + 1 \in 1 .. Len(s)
      BY <2>1
    <2> QED BY <2>2, <2>3, <2>4
  <1>3. Range(r) \subseteq Range(s) \ {s[i]}
    <2> SUFFICES ASSUME NEW p \in 1 .. Len(r) PROVE r[p] \in Range(s) \ {s[i]}
      BY <1>1 DEF Range
    <2>1. /\ r[p] = IF p < i THEN s[p] ELSE s[p + 1]
          /\ p \in 1 .. Len(s) /\ p + 1 \in 1 .. Len(s)
      BY <1>1
    <2>2. PICK j \in 1 .. Len(s) : j # i /\ r[p] = s[j]
      BY <2>1
    <2>3. s[j] # s[i]
      <3>1. s[i] \in Nat /\ s[j] \in Nat
        BY DEF Ids
      <3> QED BY <2>2, <3>1
    <2> QED BY <2>2, <2>3 DEF Range
  <1>4. Range(s) \ {s[i]} \subseteq Range(r)
    <2> SUFFICES ASSUME NEW p \in 1 .. Len(s), p # i PROVE s[p] \in Range(r)
      BY DEF Range
    <2>1. CASE p < i
      BY <1>1, <2>1 DEF Range
    <2>2. CASE p > i
      <3>1. p - 1 \in 1 .. Len(r) /\ r[p - 1] = s[p]
        BY <1>1, <2>2
      <3> QED BY <1>1, <3>1 DEF Range
    <2> QED BY <2>1, <2>2
  <1> QED BY <1>2, <1>3, <1>4 DEF r

\* Appending adds exactly the new element to the range.
LEMMA AppendRange ==
  ASSUME NEW S, NEW s \in Seq(S), NEW e \in S
  PROVE  Range(Append(s, e)) = Range(s) \cup {e}
  <1> DEFINE t == Append(s, e)
  <1>1. /\ Len(s) \in Nat /\ DOMAIN s = 1 .. Len(s)
        /\ DOMAIN t = 1 .. Len(s) + 1
        /\ t[Len(s) + 1] = e
        /\ \A p \in 1 .. Len(s) : t[p] = s[p]
    OBVIOUS
  <1> HIDE DEF t
  <1>2. 1 .. Len(s) + 1 = (1 .. Len(s)) \cup {Len(s) + 1}
    BY <1>1
  <1>3. {t[p] : p \in DOMAIN t} = {s[p] : p \in DOMAIN s} \cup {e}
    BY <1>1, <1>2
  <1> QED BY <1>3 DEF Range, t

(***************************************************************************)
(* Removing a resting order.                                               *)
(***************************************************************************)

\* What stands in a level is an order of the arena, of that side and price.
LEMMA LevelMember ==
  ASSUME BookTypeOK, IndexesAgree,
         NEW side \in Sides, NEW idx \in Idx, NEW pos \in 1 .. Len(levels[side][idx])
  PROVE  /\ levels[side][idx][pos] \in DOMAIN arena
         /\ arena[levels[side][idx][pos]].side = side
         /\ arena[levels[side][idx][pos]].price = idx_to_price(idx)
  <1>1. levels[side][idx] \in Seq(Ids)
    BY DEF BookTypeOK
  <1>2. levels[side][idx][pos] \in Range(levels[side][idx])
    BY <1>1 DEF Range
  <1>3. Range(levels[side][idx]) = {k \in Resting(side) : arena[k].price = idx_to_price(idx)}
    BY DEF IndexesAgree
  <1> QED BY <1>2, <1>3 DEF Resting

\* Unlink, the common part of a cancel, of self-trade prevention and of a
\* complete fill, keeps the book consistent: no index forgets or keeps an order
\* that the others do not, and the best index is exact again.
LEMMA UnlinkKeepsBook ==
  ASSUME BookOK, NEW side \in Sides, NEW idx \in Idx,
         NEW pos \in 1 .. Len(levels[side][idx]), Unlink(side, idx, pos)
  PROVE  /\ BookOK'
         /\ levels[side][idx][pos] \in DOMAIN arena
         /\ DOMAIN arena' = DOMAIN arena \ {levels[side][idx][pos]}
  <1> DEFINE level  == levels[side][idx]
             key    == level[pos]
             shrunk == Without(level, pos)
             ladder == [levels[side] EXCEPT ![idx] = shrunk]
  <1> USE DEF BookOK
  <1>1. level \in Seq(Ids) /\ \A p, q \in 1 .. Len(level) : p < q => level[p] < level[q]
    BY DEF BookTypeOK, LevelsFifo
  <1>2. /\ key \in DOMAIN arena /\ arena[key].side = side
        /\ arena[key].price = idx_to_price(idx)
    <2>1. BookTypeOK /\ IndexesAgree
      OBVIOUS
    <2> HIDE DEF BookOK
    <2> QED BY <2>1, LevelMember
  <1>3. /\ arena' = [k \in DOMAIN arena \ {key} |-> arena[k]]
        /\ id_to_key' = id_to_key \ {key}
        /\ levels' = [levels EXCEPT ![side] = ladder]
    BY DEF Unlink, Forget
  <1>4. PICK b \in Idx \cup {NoIdx} : /\ ClearEmptyBest(side, idx, ladder, b)
                                    /\ best' = [best EXCEPT ![side] = b]
    BY Zenon DEF Unlink
  <1>5. /\ shrunk \in Seq(Ids) /\ Range(shrunk) = Range(level) \ {key}
        /\ \A p, q \in 1 .. Len(shrunk) : p < q => shrunk[p] < shrunk[q]
    BY <1>1, WithoutProperties, WithoutIncreasing, Zenon
  <1> HIDE DEF shrunk
  <1>6. /\ ladder \in [Idx -> Seq(Ids)]
        /\ \A i \in Idx : ladder[i] = IF i = idx THEN shrunk ELSE levels[side][i]
    BY <1>5 DEF BookTypeOK
  <1> HIDE DEF ladder
  <1>7. /\ levels' \in [Sides -> [Idx -> Seq(Ids)]]
        /\ levels'[side] = ladder
        /\ \A s \in Sides : s # side => levels'[s] = levels[s]
    BY <1>3, <1>6 DEF BookTypeOK
  <1>8. BookTypeOK'
    <2>1. arena' \in [DOMAIN arena' -> RestingOrder] /\ (DOMAIN arena)' \subseteq Ids
      BY <1>3 DEF BookTypeOK
    <2>2. best' \in [Sides -> Idx \cup {NoIdx}] /\ id_to_key' \subseteq Ids
      BY <1>3, <1>4 DEF BookTypeOK
    <2> QED BY <1>7, <2>1, <2>2 DEF BookTypeOK
  <1>9. IndexesAgree'
    <2>1. id_to_key' = DOMAIN arena'
      BY <1>3 DEF IndexesAgree
    <2>2. \A k \in DOMAIN arena' : price_to_idx(arena'[k].price) # NoIdx
      BY <1>3 DEF IndexesAgree
    <2>3. ASSUME NEW s \in Sides, NEW i \in Idx
          PROVE  Range(levels'[s][i])
                   = {k \in Resting(s)' : arena'[k].price = idx_to_price(i)}
      <3>1. {k \in Resting(s)' : arena'[k].price = idx_to_price(i)}
              = {k \in Resting(s) : arena[k].price = idx_to_price(i)} \ {key}
        BY <1>3 DEF Resting
      <3>2. CASE s = side /\ i = idx
        <4>1. levels'[s][i] = shrunk
          BY <1>6, <1>7, <3>2
        <4>2. Range(level) = {k \in Resting(s) : arena[k].price = idx_to_price(i)}
          BY <3>2 DEF IndexesAgree
        <4> HIDE DEF level, key
        <4> QED BY <1>5, <3>1, <4>1, <4>2
      <3>3. CASE s # side \/ i # idx
        <4>1. levels'[s][i] = levels[s][i]
          BY <1>6, <1>7, <3>3
        <4>2. key \notin {k \in Resting(s) : arena[k].price = idx_to_price(i)}
          BY <1>2, <3>3, LadderAssumption DEF Resting, idx_to_price, Idx
        <4> QED BY <3>1, <4>1, <4>2 DEF IndexesAgree
      <3> QED BY <3>2, <3>3
    <2> QED BY <2>1, <2>2, <2>3 DEF IndexesAgree, price_to_idx, NoIdx, Idx, idx_to_price
  <1>10. LevelsFifo'
    <2> SUFFICES ASSUME NEW s \in Sides, NEW i \in Idx
                 PROVE  \A p, q \in 1 .. Len(levels'[s][i]) :
                          p < q => levels'[s][i][p] < levels'[s][i][q]
      BY DEF LevelsFifo
    <2>1. CASE s = side /\ i = idx
      BY <1>5, <1>6, <1>7, <2>1
    <2>2. CASE s # side \/ i # idx
      BY <1>6, <1>7, <2>2, Zenon DEF LevelsFifo
    <2> QED BY <2>1, <2>2
  <1>11. BestExact'
    <2> SUFFICES ASSUME NEW s \in Sides
                 PROVE  IF best'[s] = NoIdx
                        THEN \A i \in Idx : levels'[s][i] = <<>>
                        ELSE /\ levels'[s][best'[s]] # <<>>
                             /\ \A i \in Idx : levels'[s][i] # <<>>
                                  => AsAggressive(s, best'[s], i)
      BY DEF BestExact
    <2>1. CASE s # side
      BY <1>4, <1>7, <2>1, Zenon DEF BestExact, BookTypeOK
    <2>2. CASE s = side
      <3>1. best'[s] = b /\ levels'[s] = ladder
        BY <1>4, <1>7, <2>2 DEF BookTypeOK
      <3>2. level # <<>>
        BY <1>1
      <3>3. best[side] # NoIdx /\ best[side] \in Idx /\ AsAggressive(side, best[side], idx)
        BY <3>2 DEF BestExact, BookTypeOK
      <3>4. \A i \in Idx : ladder[i] # <<>> => AsAggressive(side, best[side], i)
        BY <1>6, <3>2, <3>3 DEF BestExact
      <3>5. CASE ladder[idx] = <<>> /\ best[side] = idx
        <4>1. ScanBest(side, idx, ladder, b)
          BY <1>4, <3>5 DEF ClearEmptyBest
        <4> QED
          BY <2>2, <3>1, <3>4, <3>5, <4>1, LadderAssumption DEF ScanBest, Idx, NoIdx
      <3>6. CASE ~(ladder[idx] = <<>> /\ best[side] = idx)
        <4>1. b = best[side]
          BY <1>4, <3>6 DEF ClearEmptyBest
        <4>2. ladder[best[side]] # <<>>
          BY <1>6, <3>3, <3>6 DEF BestExact
        <4> QED BY <2>2, <3>1, <3>3, <3>4, <4>1, <4>2
      <3> QED BY <3>5, <3>6
    <2> QED BY <2>1, <2>2
  <1>12. NotCrossed' /\ RestingPositive'
    BY <1>3 DEF NotCrossed, RestingPositive, Resting
  <1> QED BY <1>2, <1>3, <1>8, <1>9, <1>10, <1>11, <1>12

(***************************************************************************)
(* The steps of a command.                                                 *)
(***************************************************************************)

\* While the loop goes on there is a maker at the head of the best level: the
\* branches of match_against_book for a missing or an empty level are dead.
LEMMA MakerExists ==
  ASSUME IInv, Matchable
  PROVE  /\ taker \in Takers
         /\ MakerSide \in Sides
         /\ best[MakerSide] \in Idx
         /\ 1 \in 1 .. Len(levels[MakerSide][best[MakerSide]])
         /\ MakerKey \in DOMAIN arena
  <1>1. taker \in Takers /\ MakerSide \in Sides
    BY DEF IInv, TypeOK, Matchable, MakerSide, Opposite, Sides, Takers
  <1>2. best[MakerSide] \in Idx
    BY <1>1 DEF IInv, TypeOK, BookTypeOK, Matchable
  <1>3. /\ levels[MakerSide][best[MakerSide]] \in Seq(Ids)
        /\ levels[MakerSide][best[MakerSide]] # <<>>
    BY <1>1, <1>2 DEF IInv, TypeOK, BookTypeOK, BookOK, BestExact, Matchable
  <1>4. 1 \in 1 .. Len(levels[MakerSide][best[MakerSide]])
    BY <1>3
  <1>5. MakerKey \in DOMAIN arena
    BY <1>1, <1>2, <1>4, LevelMember DEF IInv, BookOK, MakerKey
  <1> QED BY <1>1, <1>2, <1>4, <1>5

\* A fill takes something, and no more than either side has.
LEMMA FillBounds ==
  ASSUME IInv, Matchable
  PROVE  /\ FillQty \in Nat /\ FillQty > 0
         /\ FillQty <= taker.remaining
         /\ FillQty <= arena[MakerKey].qty
  <1>1. taker \in Takers /\ MakerKey \in DOMAIN arena
    BY MakerExists
  <1>2. taker.remaining \in Nat /\ taker.remaining > 0
    BY <1>1 DEF Takers, Matchable
  <1>3. arena[MakerKey].qty \in Nat /\ arena[MakerKey].qty > 0
    BY <1>1 DEF IInv, TypeOK, BookOK, BookTypeOK, RestingOrder, RestingPositive
  <1> QED BY <1>2, <1>3 DEF FillQty

\* One iteration of the loop keeps the invariant.
LEMMA LoopKeepsIInv ==
  ASSUME IInv, CancelOwnMaker \/ FillMaker \/ FillTaker
  PROVE  IInv'
  <1>1. Matchable
    BY DEF CancelOwnMaker, FillMaker, FillTaker, Fill
  <1>2. /\ taker \in Takers /\ MakerSide \in Sides /\ best[MakerSide] \in Idx
        /\ 1 \in 1 .. Len(levels[MakerSide][best[MakerSide]])
        /\ MakerKey \in DOMAIN arena
    BY <1>1, MakerExists
  <1>3. /\ FillQty \in Nat /\ FillQty > 0 /\ FillQty <= taker.remaining
        /\ FillQty <= arena[MakerKey].qty
    BY <1>1, FillBounds
  <1>4. ASSUME Unlink(MakerSide, best[MakerSide], 1)
        PROVE  BookOK' /\ DOMAIN arena' \subseteq DOMAIN arena
    BY <1>2, <1>4, UnlinkKeepsBook, Zenon DEF IInv
  <1>5. CASE CancelOwnMaker
    BY <1>4, <1>5 DEF CancelOwnMaker, IInv, TypeOK, BookOK, TakerFresh, price_to_idx, NoIdx, Idx
  <1>6. ASSUME Fill
        PROVE  /\ taker' \in Takers /\ seq' = seq
               /\ taker'.remaining <= taker.remaining
               /\ taker'.id = taker.id /\ taker'.qty = taker.qty
               /\ taker'.price = taker.price /\ taker'.order_type = taker.order_type
    <2> DEFINE left == taker.remaining - FillQty
    <2>1. left \in Nat /\ left <= taker.remaining
      BY <1>2, <1>3 DEF Takers
    <2>2. taker' = [taker EXCEPT !.remaining = left] /\ seq' = seq
      BY <1>6 DEF Fill
    <2> HIDE DEF left
    <2> QED BY <1>2, <2>1, <2>2 DEF Takers
  <1>7. ASSUME Fill, BookOK', DOMAIN arena' \subseteq DOMAIN arena
        PROVE  IInv'
    <2>1. TypeOK'
      BY <1>6, <1>7 DEF TypeOK, BookOK, IInv
    <2>2. TakerFresh'
      <3>1. \A k \in DOMAIN arena' : k <= seq /\ k < taker.id
        BY <1>1, <1>7 DEF IInv, TakerFresh, Matchable
      <3>2. /\ taker.id = seq /\ taker.remaining <= taker.qty
            /\ taker.order_type = "Limit" => price_to_idx(taker.price) # NoIdx
        BY <1>1 DEF IInv, TakerFresh, Matchable
      <3>3. taker'.remaining <= taker.qty
        BY <1>2, <1>6, <1>7, <3>2 DEF Takers
      <3> QED
        BY <1>6, <1>7, <3>1, <3>2, <3>3 DEF TakerFresh, price_to_idx, NoIdx, Idx
    <2> QED BY <1>7, <2>1, <2>2 DEF IInv
  <1>8. CASE FillMaker
    BY <1>4, <1>7, <1>8 DEF FillMaker
  <1>9. CASE FillTaker
    <2>1. /\ arena' = [arena EXCEPT ![MakerKey].qty = @ - FillQty]
          /\ UNCHANGED <<id_to_key, levels, best>>
          /\ FillQty # arena[MakerKey].qty
      BY <1>9 DEF FillTaker, MakerExhausted
    <2>2. /\ arena[MakerKey] \in RestingOrder
          /\ arena \in [DOMAIN arena -> RestingOrder]
      BY <1>2 DEF IInv, BookOK, BookTypeOK
    <2>3. /\ arena' \in [DOMAIN arena -> RestingOrder]
          /\ \A k \in DOMAIN arena : /\ arena'[k].side = arena[k].side
                                    /\ arena'[k].price = arena[k].price
          /\ \A k \in DOMAIN arena : k # MakerKey => arena'[k] = arena[k]
          /\ arena'[MakerKey].qty > 0
      <3>1. arena[MakerKey].qty - FillQty \in Nat /\ arena[MakerKey].qty - FillQty > 0
        BY <1>3, <2>1, <2>2 DEF RestingOrder
      <3> QED BY <1>2, <2>1, <2>2, <3>1 DEF RestingOrder
    <2>4. \A s \in Sides : Resting(s)' = Resting(s)
      BY <2>3 DEF Resting
    <2>5. BookTypeOK'
      BY <2>1, <2>3 DEF IInv, BookOK, BookTypeOK
    <2>6. IndexesAgree'
      <3>1. \A s \in Sides, i \in Idx :
              {k \in Resting(s)' : arena'[k].price = idx_to_price(i)}
                = {k \in Resting(s) : arena[k].price = idx_to_price(i)}
        BY <2>3, <2>4 DEF Resting
      <3> QED
        BY <2>1, <2>3, <3>1
        DEF IInv, BookOK, IndexesAgree, price_to_idx, NoIdx, Idx, idx_to_price
    <2>7. LevelsFifo' /\ BestExact'
      BY <2>1 DEF IInv, BookOK, LevelsFifo, BestExact
    <2>8. NotCrossed'
      BY <2>3, <2>4 DEF IInv, BookOK, NotCrossed, Resting, Sides
    <2>9. RestingPositive'
      BY <2>3 DEF IInv, BookOK, RestingPositive
    <2>10. BookOK' /\ DOMAIN arena' = DOMAIN arena
      BY <2>3, <2>5, <2>6, <2>7, <2>8, <2>9 DEF BookOK
    <2> QED BY <1>7, <1>9, <2>10 DEF FillTaker
  <1> QED BY <1>5, <1>8, <1>9

\* A limit order that the loop left unfilled is worse than every order of the
\* other side.
LEMMA UnfilledDoesNotCross ==
  ASSUME IInv, Unfilled, taker.order_type # "Market", NEW k \in Resting(MakerSide)
  PROVE  ~AsAggressive(taker.side, taker.price, arena[k].price)
  <1>1. /\ taker \in Takers /\ MakerSide \in Sides
        /\ MakerSide = Opposite(taker.side) /\ taker.side \in Sides
    BY DEF IInv, TypeOK, Unfilled, MakerSide, Opposite, Sides, Takers
  <1> DEFINE i == arena[k].price - TickFloor
  <1>2. k \in DOMAIN arena /\ arena[k].price \in Int /\ i \in Idx
    BY LadderAssumption
    DEF Resting, IInv, BookOK, BookTypeOK, RestingOrder, IndexesAgree, price_to_idx, NoIdx, Idx
  <1>3. arena[k].price = idx_to_price(i)
    BY <1>2, LadderAssumption DEF idx_to_price
  <1>4. levels[MakerSide][i] # <<>>
    <2>1. k \in Range(levels[MakerSide][i])
      BY <1>1, <1>2, <1>3 DEF IInv, BookOK, IndexesAgree
    <2>2. Range(<<>>) = {}
      BY DEF Range
    <2> QED BY <2>1, <2>2
  <1>5. /\ best[MakerSide] \in Idx
        /\ AsAggressive(MakerSide, best[MakerSide], i)
    BY <1>1, <1>2, <1>4, Zenon DEF IInv, BookOK, BestExact, BookTypeOK
  <1>6. ~Crosses(taker.side, taker.price, taker.order_type, best[MakerSide])
    BY <1>5, LadderAssumption DEF Unfilled, Matchable, NoIdx, Idx
  <1>7. ~AsAggressive(taker.side, taker.price, idx_to_price(best[MakerSide]))
    BY <1>6 DEF Crosses
  <1>8. taker.price \in Int
    BY <1>1 DEF Takers
  <1> QED
    BY <1>1, <1>2, <1>3, <1>5, <1>7, <1>8, LadderAssumption
    DEF AsAggressive, Opposite, Sides, Idx, idx_to_price

\* Linking the remainder of a limit order into the book keeps the invariant.
LEMMA RestKeepsIInv ==
  ASSUME IInv, Rest
  PROVE  IInv'
  <1> DEFINE id      == taker.id
             side    == taker.side
             idx     == price_to_idx(taker.price)
             resting == [account |-> taker.account, side |-> taker.side,
                         price |-> taker.price, qty |-> taker.remaining]
  <1>1. taker \in Takers /\ Unfilled /\ taker.order_type = "Limit"
    BY DEF IInv, TypeOK, Rest, Unfilled, Immediate, Takers
  <1>2. /\ id \in Ids /\ side \in Sides /\ taker.price \in Int
        /\ taker.remaining \in Nat /\ taker.remaining > 0
        /\ resting \in RestingOrder
    BY <1>1 DEF Takers, Unfilled, RestingOrder
  <1>3. id = seq /\ seq \in Nat /\ \A k \in DOMAIN arena : k < id
    BY <1>1 DEF IInv, TakerFresh, TypeOK, Unfilled
  <1>4. idx \in Idx /\ taker.price = idx_to_price(idx)
    BY <1>1, <1>2, LadderAssumption
    DEF IInv, TakerFresh, Unfilled, price_to_idx, idx_to_price, NoIdx, Idx
  <1>5. /\ arena' = [k \in DOMAIN arena \cup {id} |-> IF k = id THEN resting ELSE arena[k]]
        /\ levels' = [levels EXCEPT ![side][idx] = Append(@, id)]
        /\ best' = [best EXCEPT ![side] = RefreshBest(side, idx)]
        /\ id_to_key' = id_to_key \cup {id}
        /\ taker' = NoTaker /\ seq' = seq
    BY DEF Rest, PushBack
  <1> HIDE DEF idx, resting
  <1>6. /\ DOMAIN arena' = DOMAIN arena \cup {id} /\ id \notin DOMAIN arena
        /\ arena'[id] = resting
        /\ \A k \in DOMAIN arena : k # id /\ arena'[k] = arena[k]
    BY <1>2, <1>3, <1>5 DEF IInv, BookOK, BookTypeOK, Ids
  <1>7. /\ resting.side = side /\ resting.price = taker.price
        /\ resting.qty = taker.remaining
    BY DEF resting
  <1>8. /\ levels' \in [Sides -> [Idx -> Seq(Ids)]]
        /\ levels'[side][idx] = Append(levels[side][idx], id)
        /\ \A s \in Sides, i \in Idx :
             s # side \/ i # idx => levels'[s][i] = levels[s][i]
    BY <1>2, <1>4, <1>5 DEF IInv, BookOK, BookTypeOK
  <1>9. BookTypeOK'
    <2>1. arena' \in [DOMAIN arena' -> RestingOrder] /\ DOMAIN arena' \subseteq Ids
      BY <1>2, <1>5, <1>6 DEF IInv, BookOK, BookTypeOK
    <2>2. best' \in [Sides -> Idx \cup {NoIdx}] /\ id_to_key' \subseteq Ids
      BY <1>2, <1>4, <1>5 DEF IInv, BookOK, BookTypeOK, RefreshBest
    <2> QED BY <1>8, <2>1, <2>2 DEF BookTypeOK
  <1>10. /\ levels[side][idx] \in Seq(Ids)
         /\ \A p \in 1 .. Len(levels[side][idx]) : levels[side][idx][p] < id
         /\ Range(Append(levels[side][idx], id)) = Range(levels[side][idx]) \cup {id}
    <2>1. levels[side][idx] \in Seq(Ids)
      BY <1>2, <1>4 DEF IInv, BookOK, BookTypeOK
    <2>2. \A p \in 1 .. Len(levels[side][idx]) : levels[side][idx][p] < id
      BY <1>2, <1>3, <1>4, LevelMember DEF IInv, BookOK
    <2>3. Range(Append(levels[side][idx], id)) = Range(levels[side][idx]) \cup {id}
      BY <1>2, <2>1, AppendRange
    <2> QED BY <2>1, <2>2, <2>3
  <1>11. IndexesAgree'
    <2>1. id_to_key' = DOMAIN arena'
      BY <1>5, <1>6 DEF IInv, BookOK, IndexesAgree
    <2>2. \A k \in DOMAIN arena' : price_to_idx(arena'[k].price) # NoIdx
      <3>1. idx # NoIdx
        BY <1>4, LadderAssumption DEF Idx, NoIdx
      <3> QED BY <1>6, <1>7, <3>1 DEF IInv, BookOK, IndexesAgree, idx
    <2>3. ASSUME NEW s \in Sides, NEW i \in Idx
          PROVE  Range(levels'[s][i])
                   = {k \in Resting(s)' : arena'[k].price = idx_to_price(i)}
      <3> DEFINE Old == {k \in Resting(s) : arena[k].price = idx_to_price(i)}
                 New == {k \in Resting(s)' : arena'[k].price = idx_to_price(i)}
      <3>1. Range(levels[s][i]) = Old
        BY DEF IInv, BookOK, IndexesAgree
      <3>2. CASE s = side /\ i = idx
        <4>1. New = Old \cup {id}
          BY <1>4, <1>6, <1>7, <3>2 DEF Resting
        <4> QED BY <1>8, <1>10, <3>1, <3>2, <4>1, Zenon
      <3>3. CASE s # side \/ i # idx
        <4>1. taker.price # idx_to_price(i) \/ s # side
          BY <1>4, <3>3, LadderAssumption DEF idx_to_price, Idx
        <4>2. New = Old
          BY <1>6, <1>7, <4>1 DEF Resting
        <4> QED BY <1>8, <3>1, <3>3, <4>2
      <3> QED BY <3>2, <3>3
    <2> QED BY <2>1, <2>2, <2>3 DEF IndexesAgree, price_to_idx, NoIdx, Idx, idx_to_price
  <1>12. LevelsFifo'
    <2> SUFFICES ASSUME NEW s \in Sides, NEW i \in Idx,
                        NEW p \in 1 .. Len(levels'[s][i]), NEW q \in 1 .. Len(levels'[s][i]),
                        p < q
                 PROVE  levels'[s][i][p] < levels'[s][i][q]
      BY DEF LevelsFifo
    <2>1. CASE s = side /\ i = idx
      <3> DEFINE level == levels[side][idx]
      <3>1. level \in Seq(Ids) /\ \A m, n \in 1 .. Len(level) : m < n => level[m] < level[n]
        BY <1>2, <1>4, <1>10 DEF IInv, BookOK, LevelsFifo
      <3>2. levels'[s][i] = Append(level, id)
        BY <1>8, <2>1
      <3>3. \A m \in 1 .. Len(level) : level[m] < id
        BY <1>10
      <3> HIDE DEF level, id
      <3> QED BY <3>1, <3>2, <3>3
    <2>2. CASE s # side \/ i # idx
      BY <1>8, <2>2 DEF IInv, BookOK, LevelsFifo
    <2> QED BY <2>1, <2>2
  <1>13. BestExact'
    <2> SUFFICES ASSUME NEW s \in Sides
                 PROVE  IF best'[s] = NoIdx
                        THEN \A i \in Idx : levels'[s][i] = <<>>
                        ELSE /\ levels'[s][best'[s]] # <<>>
                             /\ \A i \in Idx : levels'[s][i] # <<>>
                                  => AsAggressive(s, best'[s], i)
      BY DEF BestExact
    <2>1. CASE s # side
      BY <1>5, <1>8, <2>1 DEF IInv, BookOK, BestExact, BookTypeOK
    <2>2. CASE s = side
      <3>1. best'[s] = RefreshBest(side, idx)
        BY <1>5, <2>2 DEF IInv, BookOK, BookTypeOK
      <3>2. levels'[s][idx] # <<>> /\ best'[s] \in Idx
        BY <1>4, <1>8, <1>10, <2>2, <3>1 DEF IInv, BookOK, BookTypeOK, RefreshBest
      <3>3. levels'[s][best'[s]] # <<>>
        BY <1>2, <1>4, <1>8, <2>2, <3>1, <3>2, Zenon DEF IInv, BookOK, BestExact, RefreshBest
      <3>4. ASSUME NEW i \in Idx, levels'[s][i] # <<>>
            PROVE  AsAggressive(s, best'[s], i)
        <4>1. i # idx => best[s] # NoIdx /\ best[s] \in Idx /\ AsAggressive(s, best[s], i)
          BY <1>8, <2>2, <3>4 DEF IInv, BookOK, BestExact, BookTypeOK
        <4>2. best[s] \in Int
          BY LadderAssumption DEF IInv, BookOK, BookTypeOK, Idx, NoIdx
        <4> QED
          BY <1>4, <2>2, <3>1, <4>1, <4>2, LadderAssumption DEF RefreshBest, AsAggressive, Idx
      <3> QED BY <3>2, <3>3, <3>4, LadderAssumption DEF Idx, NoIdx
    <2> QED BY <2>1, <2>2
  <1>14. NotCrossed'
    <2>1. MakerSide = Opposite(side)
      BY DEF MakerSide
    <2>2. \A k \in Resting(Opposite(side)) : ~AsAggressive(side, taker.price, arena[k].price)
      BY <1>1, <2>1, UnfilledDoesNotCross
    <2>3. \A k \in DOMAIN arena : arena[k].price \in Int
      BY DEF IInv, BookOK, BookTypeOK, RestingOrder
    <2>4. CASE side = "Buy"
      BY <1>2, <1>6, <1>7, <2>2, <2>3, <2>4
      DEF IInv, BookOK, NotCrossed, Resting, Opposite, AsAggressive
    <2>5. CASE side = "Sell"
      BY <1>2, <1>6, <1>7, <2>2, <2>3, <2>5
      DEF IInv, BookOK, NotCrossed, Resting, Opposite, AsAggressive
    <2> QED BY <1>2, <2>4, <2>5 DEF Sides
  <1>15. RestingPositive'
    BY <1>2, <1>6, <1>7 DEF IInv, BookOK, RestingPositive
  <1>16. TypeOK' /\ TakerFresh'
    <2>1. \A k \in DOMAIN arena' : k <= seq'
      BY <1>2, <1>3, <1>5, <1>6 DEF IInv, TakerFresh, Ids
    <2> QED BY <1>3, <1>5, <1>9, <2>1 DEF TypeOK, TakerFresh
  <1> QED
    BY <1>9, <1>11, <1>12, <1>13, <1>14, <1>15, <1>16 DEF IInv, BookOK

(***************************************************************************)
(* The invariant.                                                          *)
(***************************************************************************)
LEMMA InitEstablishesIInv == Init => IInv
  <1> SUFFICES ASSUME Init PROVE IInv
    OBVIOUS
  <1> USE DEF Init
  <1>1. BookTypeOK
    BY DEF BookTypeOK, Ids, RestingOrder
  <1>2. IndexesAgree
    BY DEF IndexesAgree, Resting, Range
  <1>3. LevelsFifo /\ BestExact
    BY DEF LevelsFifo, BestExact
  <1>4. NotCrossed /\ RestingPositive /\ TakerFresh
    BY DEF NotCrossed, RestingPositive, TakerFresh, Resting
  <1>5. TypeOK
    BY <1>1 DEF TypeOK
  <1> QED BY <1>1, <1>2, <1>3, <1>4, <1>5 DEF IInv, BookOK

\* A step that leaves the book alone keeps the book's part of the invariant.
LEMMA BookUnchanged ==
  ASSUME BookOK, UNCHANGED book
  PROVE  BookOK'
  BY DEF book, BookOK, BookTypeOK, IndexesAgree, LevelsFifo, BestExact, NotCrossed,
         RestingPositive, Resting, price_to_idx, idx_to_price, NoIdx, Idx

\* IInv is inductive: every action keeps it.
LEMMA NextKeepsIInv ==
  ASSUME IInv, [Next]_vars
  PROVE  IInv'
  <1>1. ASSUME NEW o \in NewOrders, RejectOnEntry(o) PROVE IInv'
    <2>1. UNCHANGED <<book, taker>> /\ taker = NoTaker /\ seq' = seq + 1
      BY <1>1 DEF RejectOnEntry, NextCommand
    <2> QED
      BY <2>1, BookUnchanged DEF IInv, TypeOK, BookOK, TakerFresh, book, BookTypeOK, Ids
  <1>2. ASSUME NEW o \in NewOrders, BeginMatch(o) PROVE IInv'
    <2>1. /\ UNCHANGED book /\ taker = NoTaker /\ seq' = seq + 1
          /\ taker' = [id |-> seq', account |-> o.account, side |-> o.side,
                       price |-> o.price, qty |-> o.qty, remaining |-> o.qty,
                       order_type |-> o.order_type, tif |-> o.tif]
          /\ Validate(o) = "Ok"
      BY <1>2 DEF BeginMatch, NextCommand
    <2>2. taker' \in Takers /\ seq' \in Nat /\ o.qty \in Nat
      <3>1. /\ o.account \in Accounts /\ o.side \in Sides
            /\ o.order_type \in {"Limit", "Market"} /\ o.tif \in {"Gtc", "Ioc", "Fok"}
            /\ o.price \in Prices /\ o.qty \in Qtys
        BY DEF NewOrders
      <3>2. o.price \in Int /\ o.qty \in Nat
        BY <3>1, InputAssumption, Zenon
      <3>3. seq' \in Ids /\ seq' \in Nat
        BY <2>1 DEF IInv, TypeOK, Ids
      <3> QED BY <2>1, <3>1, <3>2, <3>3 DEF Takers
    <2>3. o.order_type = "Limit" => price_to_idx(o.price) # NoIdx
      BY <2>1 DEF Validate
    <2>4. \A k \in DOMAIN arena' : k <= seq' /\ k < seq'
      BY <2>1 DEF IInv, TypeOK, BookTypeOK, TakerFresh, book, Ids
    <2>5. taker'.remaining <= taker'.qty
      <3>1. taker'.remaining = o.qty /\ taker'.qty = o.qty
        BY <2>1
      <3> QED BY <2>2, <3>1
    <2>6. TakerFresh'
      BY <2>1, <2>3, <2>4, <2>5 DEF TakerFresh, price_to_idx, NoIdx, Idx
    <2>7. BookOK'
      BY <2>1, BookUnchanged DEF IInv
    <2> QED BY <2>2, <2>6, <2>7 DEF IInv, TypeOK, BookOK
  <1>3. ASSUME NEW account \in Accounts, NEW id \in 1 .. MaxSeq, RejectCancel(account, id)
        PROVE  IInv'
    <2>1. UNCHANGED <<book, taker>> /\ taker = NoTaker /\ seq' = seq + 1
      BY <1>3 DEF RejectCancel, NextCommand
    <2> QED
      BY <2>1, BookUnchanged DEF IInv, TypeOK, BookOK, TakerFresh, book, BookTypeOK, Ids
  <1>4. ASSUME NEW account \in Accounts, NEW id \in 1 .. MaxSeq, CancelOpen(account, id)
        PROVE  IInv'
    <2> DEFINE idx  == price_to_idx(arena[id].price)
               side == arena[id].side
    <2>1. taker' = taker /\ taker = NoTaker /\ seq' = seq + 1
      BY <1>4 DEF CancelOpen, NextCommand
    <2>2. id \in DOMAIN arena
      BY <1>4 DEF CancelOpen, IInv, BookOK, IndexesAgree
    <2>3. side \in Sides /\ idx \in Idx
      BY <2>2 DEF IInv, BookOK, BookTypeOK, RestingOrder, IndexesAgree, price_to_idx
    <2>4. PICK pos \in 1 .. Len(levels[side][idx]) : Unlink(side, idx, pos)
      BY <1>4 DEF CancelOpen
    <2> HIDE DEF idx, side
    <2>5. BookOK' /\ DOMAIN arena' \subseteq DOMAIN arena
      BY <2>3, <2>4, UnlinkKeepsBook, Zenon DEF IInv
    <2>6. \A k \in DOMAIN arena' : k <= seq'
      BY <2>1, <2>5 DEF IInv, TypeOK, BookTypeOK, TakerFresh, Ids
    <2> QED BY <2>1, <2>5, <2>6 DEF IInv, TypeOK, BookOK, TakerFresh
  <1>5. CASE CancelOwnMaker \/ FillMaker \/ FillTaker
    BY <1>5, LoopKeepsIInv
  <1>6. CASE ReturnFilled \/ CancelRemainder \/ RejectArenaFull
    <2>1. UNCHANGED <<book, seq>> /\ taker' = NoTaker
      BY <1>6 DEF ReturnFilled, CancelRemainder, RejectArenaFull
    <2> QED
      BY <2>1, BookUnchanged DEF IInv, TypeOK, BookOK, TakerFresh, book
  <1>7. CASE Rest
    BY <1>7, RestKeepsIInv
  <1>8. CASE IgnoreCommand
    <2>1. UNCHANGED <<book, taker>> /\ taker = NoTaker /\ seq' = seq + 1
      BY <1>8 DEF IgnoreCommand, NextCommand
    <2> QED
      BY <2>1, BookUnchanged DEF IInv, TypeOK, BookOK, TakerFresh, book, BookTypeOK, Ids
  <1>9. CASE UNCHANGED vars
    <2>1. BookOK' /\ UNCHANGED <<arena, taker, seq>>
      BY <1>9, BookUnchanged DEF vars, book, IInv
    <2> QED
      BY <2>1 DEF IInv, TypeOK, BookOK, TakerFresh, price_to_idx, NoIdx, Idx
  <1> QED
    BY <1>1, <1>2, <1>3, <1>4, <1>5, <1>6, <1>7, <1>8, <1>9 DEF Next, MatchStep

\* The inductive invariant holds for every ladder length, capacity and set of
\* inputs: apply() keeps arena, levels, cancel index and best indexes
\* consistent, in the middle of a command too.
THEOREM BookConsistent == Spec => []IInv
  <1>1. Init => IInv
    BY InitEstablishesIInv
  <1>2. IInv /\ [Next]_vars => IInv'
    BY NextKeepsIInv
  <1> QED BY <1>1, <1>2, PTL DEF Spec

\* Type correctness: no quantity of a resting order or of the order being
\* matched ever goes below zero.
THEOREM TypeCorrect == Spec => []TypeOK
  <1>1. IInv => TypeOK
    BY DEF IInv
  <1> QED BY <1>1, BookConsistent, PTL

\* The three indexes over resting orders always agree.
THEOREM IndexesAlwaysAgree == Spec => []IndexesAgree
  <1>1. IInv => IndexesAgree
    BY DEF IInv, BookOK
  <1> QED BY <1>1, BookConsistent, PTL

\* The book is never crossed or locked.
THEOREM NeverCrossed == Spec => []NotCrossed
  <1>1. IInv => NotCrossed
    BY DEF IInv, BookOK
  <1> QED BY <1>1, BookConsistent, PTL

\* The best indexes are exact after every step.
THEOREM BestAlwaysExact == Spec => []BestExact
  <1>1. IInv => BestExact
    BY DEF IInv, BookOK
  <1> QED BY <1>1, BookConsistent, PTL

(***************************************************************************)
(* What a command reports.                                                 *)
(***************************************************************************)
Reasons == {"InvalidQty", "PriceOutOfRange", "FokNotFullyFillable", "Ok", "IocNoMatch",
            "ArenaFull", "WrongAccount", "OrderNotFound"}

EventSet ==
  [type : {"Rejected"}, id : Nat, reason : Reasons] \cup [type : {"Cancelled"}, id : Nat]
    \cup [type : {"Accepted"}, id : Nat, qty : Nat]
    \cup [type : {"Trade"}, maker : Nat, id : Nat, price : Int, qty : Nat]
    \cup [type : {"BookTop"}, bid : SUBSET Int, ask : SUBSET Int]

\* A BookTop event is an event, whichever sides have a best price.
LEMMA BookTopIsEvent ==
  ASSUME NEW b \in [Sides -> Idx \cup {NoIdx}], NEW lv
  PROVE  BookTop(b, lv) \in EventSet /\ BookTop(b, lv).type = "BookTop"
  <1>1. \A s \in Sides : BestPrice(s, b, lv) \in SUBSET Int
    BY LadderAssumption DEF BestPrice, idx_to_price, Idx, NoIdx
  <1> QED BY <1>1 DEF BookTop, EventSet, Sides

\* Trades are reported only by a taker that has less left than it came with,
\* and none of the loop's events is a rejection.
EventInv ==
  /\ events \in Seq(EventSet)
  /\ taker # NoTaker =>
       \A i \in DOMAIN events :
         /\ events[i].type \in {"Cancelled", "Trade"}
         /\ events[i].type = "Trade" => taker.remaining < taker.qty

\* Appending an event makes it the newest and adds no other.
LEMMA AppendLast ==
  ASSUME NEW S, NEW s \in Seq(S), NEW e \in S
  PROVE  /\ Append(s, e) \in Seq(S) /\ Newest(Append(s, e)) = e
         /\ \A i \in DOMAIN Append(s, e) : \/ i \in DOMAIN s /\ Append(s, e)[i] = s[i]
                                           \/ Append(s, e)[i] = e
  <1>1. /\ Append(s, e) \in Seq(S) /\ Len(Append(s, e)) = Len(s) + 1
        /\ Append(s, e)[Len(s) + 1] = e /\ \A i \in 1 .. Len(s) : Append(s, e)[i] = s[i]
    OBVIOUS
  <1>2. Newest(Append(s, e)) = e
    BY <1>1 DEF Newest
  <1>3. ASSUME NEW i \in 1 .. Len(s) + 1, i # Len(s) + 1
        PROVE  i \in 1 .. Len(s)
    BY <1>3
  <1> QED BY <1>1, <1>2, <1>3

\* The same of appending two events.
LEMMA ConcatTwo ==
  ASSUME NEW S, NEW s \in Seq(S), NEW d \in S, NEW e \in S
  PROVE  /\ s \o <<d, e>> \in Seq(S) /\ Newest(s \o <<d, e>>) = e
         /\ \A i \in DOMAIN (s \o <<d, e>>) :
              \/ i \in DOMAIN s /\ (s \o <<d, e>>)[i] = s[i]
              \/ (s \o <<d, e>>)[i] \in {d, e}
  <1> DEFINE pair == <<d, e>>
  <1>0. pair \in Seq(S)
    OBVIOUS
  <1>1. PICK r \in Seq(S) : r = <<d, e>>
    BY <1>0, Zenon
  <1>2. Len(r) = 2 /\ r[1] = d /\ r[2] = e
    BY <1>1
  <1>3. /\ s \o r \in Seq(S) /\ Len(s \o r) = Len(s) + 2
        /\ \A i \in 1 .. Len(s) : (s \o r)[i] = s[i]
        /\ (s \o r)[Len(s) + 1] = r[1] /\ (s \o r)[Len(s) + 2] = r[2]
    <2>1. s \o r \in Seq(S) /\ Len(s \o r) = Len(s) + Len(r)
      BY ConcatProperties
    <2>2. /\ \A i \in 1 .. Len(s) : (s \o r)[i] = s[i]
          /\ \A j \in 1 .. Len(r) : (s \o r)[Len(s) + j] = r[j]
      OBVIOUS
    <2>3. 1 \in 1 .. Len(r) /\ 2 \in 1 .. Len(r)
      BY <1>2
    <2> QED BY <1>2, <2>1, <2>2, <2>3
  <1>4. PICK u \in Seq(S) : u = s \o r
    BY <1>3, Zenon
  <1>5. /\ Len(s) \in Nat /\ Len(u) = Len(s) + 2
        /\ \A i \in 1 .. Len(s) : u[i] = s[i]
        /\ u[Len(s) + 1] = d /\ u[Len(s) + 2] = e
    BY <1>2, <1>3, <1>4
  <1>6. Newest(u) = e
    BY <1>5 DEF Newest
  <1>7. ASSUME NEW i \in DOMAIN u
        PROVE  (i \in DOMAIN s /\ u[i] = s[i]) \/ u[i] \in {d, e}
    <2>1. i \in 1 .. Len(s) \/ i = Len(s) + 1 \/ i = Len(s) + 2
      BY <1>5
    <2> QED BY <1>5, <2>1
  <1> QED BY <1>1, <1>4, <1>6, <1>7, Zenon

\* Every step of Next reports one of these; what the taker and the arena have to
\* do with it is in the steps that follow.
LEMMA NextEvents ==
  ASSUME IInv, EventInv, [Next]_vars
  PROVE  EventInv'
  <1> USE DEF EventInv
  <1>0. best \in [Sides -> Idx \cup {NoIdx}] /\ seq \in Nat
    BY DEF IInv, TypeOK, BookTypeOK
  <1>1. ASSUME NEW o \in NewOrders, RejectOnEntry(o)
        PROVE  EventInv'
    <2>0. Validate(o) \in Reasons
      BY DEF Validate, Reasons
    <2>1. PICK r \in Reasons : r = Validate(o)
      BY <2>0
    <2>2. Rejected(seq + 1, r) \in EventSet
      BY <1>0, <2>1 DEF Rejected, EventSet
    <2>3. events' = <<Rejected(seq + 1, r)>> /\ taker' = NoTaker
      BY <1>1, <2>1 DEF RejectOnEntry, NextCommand
    <2> QED BY <2>2, <2>3
  <1>2. ASSUME NEW o \in NewOrders, BeginMatch(o)
        PROVE  EventInv'
    <2>1. events' = <<>>
      BY <1>2 DEF BeginMatch
    <2> QED BY <2>1
  <1>3. ASSUME NEW account \in Accounts, NEW id \in 1 .. MaxSeq, RejectCancel(account, id)
        PROVE  EventInv'
    <2>1. PICK r \in Reasons :
            r = IF id \in id_to_key THEN "WrongAccount" ELSE "OrderNotFound"
      <3>1. CASE id \in id_to_key
        BY <3>1 DEF Reasons
      <3>2. CASE id \notin id_to_key
        BY <3>2 DEF Reasons
      <3> QED BY <3>1, <3>2
    <2>2. Rejected(id, r) \in EventSet
      BY <2>1, BoundAssumption DEF Rejected, EventSet
    <2>3. events' = <<Rejected(id, r)>> /\ taker' = NoTaker
      BY <1>3, <2>1 DEF RejectCancel, NextCommand
    <2> QED BY <2>2, <2>3
  <1>4. ASSUME NEW account \in Accounts, NEW id \in 1 .. MaxSeq, CancelOpen(account, id)
        PROVE  EventInv'
    <2>1. Cancelled(id) \in EventSet
      BY BoundAssumption DEF Cancelled, EventSet
    <2>2. events' = <<Cancelled(id)>> /\ taker' = NoTaker
      BY <1>4 DEF CancelOpen, NextCommand
    <2> QED BY <2>1, <2>2
  <1>5. CASE IgnoreCommand
    BY <1>5 DEF IgnoreCommand, NextCommand
  <1>6. CASE CancelOwnMaker
    <2>1. taker \in Takers /\ MakerKey \in Nat
      BY <1>6, MakerExists DEF CancelOwnMaker, IInv, TypeOK, BookTypeOK, Ids
    <2>2. PICK e \in EventSet : e = Cancelled(MakerKey) /\ e.type = "Cancelled"
      <3>1. Cancelled(MakerKey) \in EventSet /\ Cancelled(MakerKey).type = "Cancelled"
        BY <2>1 DEF Cancelled, EventSet
      <3> QED BY <3>1
    <2>3. events' = Append(events, e) /\ taker' = taker /\ taker # NoTaker
      BY <1>6, <2>2 DEF CancelOwnMaker, Matchable
    <2> QED BY <2>2, <2>3, AppendLast
  <1>7. ASSUME Fill
        PROVE  EventInv'
    <2>1. /\ taker \in Takers /\ MakerKey \in DOMAIN arena /\ MakerKey \in Nat
          /\ arena[MakerKey] \in RestingOrder /\ taker # NoTaker
      BY <1>7, MakerExists DEF Fill, Matchable, IInv, TypeOK, BookTypeOK, Ids
    <2>2. FillQty \in Nat /\ FillQty > 0 /\ FillQty <= taker.remaining
      BY <1>7, <2>1, FillBounds DEF Fill
    <2>3. PICK e \in EventSet :
            e = Trade(MakerKey, taker.id, arena[MakerKey].price, FillQty)
      BY <2>1, <2>2, Zenon DEF Trade, EventSet, Takers, RestingOrder, Ids
    <2>4. e.type = "Trade"
      BY <2>3 DEF Trade
    <2>5. events' = Append(events, e)
      BY <1>7, <2>3 DEF Fill
    <2>6. taker'.remaining < taker'.qty
      <3>1. taker.remaining <= taker.qty /\ taker.remaining \in Nat /\ taker.qty \in Nat
        BY <2>1 DEF IInv, TakerFresh, Takers
      <3>2. taker'.remaining = taker.remaining - FillQty /\ taker'.qty = taker.qty
        BY <1>7, <2>1 DEF Fill, Takers
      <3> QED BY <2>2, <3>1, <3>2
    <2> QED BY <2>1, <2>4, <2>5, <2>6, AppendLast
  <1>8. CASE ReturnFilled
    <2>1. PICK e \in EventSet : e = BookTop(best, levels)
      BY <1>0, BookTopIsEvent
    <2> QED BY <1>8, <2>1, AppendLast DEF ReturnFilled
  <1>9. CASE CancelRemainder
    <2>1. PICK e \in EventSet : e = BookTop(best, levels)
      BY <1>0, BookTopIsEvent
    <2>2. taker.id \in Nat
      BY <1>9 DEF CancelRemainder, Unfilled, IInv, TypeOK, Takers, Ids
    <2>3. PICK d \in EventSet : d = RemainderEvent
      <3>1. Cancelled(taker.id) \in EventSet
        BY <2>2 DEF Cancelled, EventSet
      <3>2. Rejected(taker.id, "IocNoMatch") \in EventSet
        BY <2>2 DEF Rejected, EventSet, Reasons
      <3> QED BY <3>1, <3>2 DEF RemainderEvent
    <2> QED BY <1>9, <2>1, <2>3, ConcatTwo DEF CancelRemainder
  <1>10. CASE RejectArenaFull
    <2>1. taker.id \in Nat
      BY <1>10 DEF RejectArenaFull, Unfilled, IInv, TypeOK, Takers, Ids
    <2>2. PICK e \in EventSet : e = Rejected(taker.id, "ArenaFull")
      <3>1. Rejected(taker.id, "ArenaFull") \in EventSet
        BY <2>1 DEF Rejected, EventSet, Reasons
      <3> QED BY <3>1
    <2> QED BY <1>10, <2>2, AppendLast DEF RejectArenaFull
  <1>11. CASE Rest
    <2>1. best' \in [Sides -> Idx \cup {NoIdx}]
      BY <1>11, RestKeepsIInv DEF IInv, TypeOK, BookTypeOK
    <2>2. PICK e \in EventSet : e = BookTop(best', levels')
      BY <2>1, BookTopIsEvent
    <2>3. taker.id \in Nat /\ taker.remaining \in Nat
      BY <1>11 DEF Rest, Unfilled, IInv, TypeOK, Takers, Ids
    <2>4. PICK d \in EventSet : d = Accepted(taker.id, taker.remaining)
      BY <2>3, Zenon DEF Accepted, EventSet
    <2>5. events' = events \o <<d, e>> /\ taker' = NoTaker
      BY <1>11, <2>2, <2>4 DEF Rest
    <2> QED BY <2>5, ConcatTwo
  <1>12. CASE UNCHANGED vars
    BY <1>12 DEF vars
  <1> QED
    BY <1>1, <1>2, <1>3, <1>4, <1>5, <1>6, <1>7, <1>8, <1>9, <1>10, <1>11, <1>12
    DEF Next, MatchStep, FillMaker, FillTaker

\* Prices are ordered as their indexes are.
LEMMA SameOrder ==
  ASSUME NEW i \in Idx, NEW j \in Idx
  PROVE  /\ idx_to_price(i) = idx_to_price(j) => i = j
         /\ \A side : AsAggressive(side, i, j)
                      => AsAggressive(side, idx_to_price(i), idx_to_price(j))
  BY LadderAssumption DEF AsAggressive, idx_to_price, Idx

\* A Fill trades with the order that price-time priority puts first.
LEMMA NextPriority ==
  ASSUME IInv, EventInv, Next
  PROVE  TradesInPriority
  <1>1. CASE Fill
    <2> DEFINE m  == MakerKey
               ms == MakerSide
               bi == best[MakerSide]
               level == levels[MakerSide][best[MakerSide]]
    <2>1. /\ taker \in Takers /\ ms \in Sides /\ bi \in Idx
          /\ 1 \in 1 .. Len(level) /\ m \in DOMAIN arena /\ m = level[1]
      BY <1>1, MakerExists DEF Fill, MakerKey
    <2>2. arena[m].side = ms /\ arena[m].price = idx_to_price(bi)
      BY <2>1, LevelMember DEF IInv, BookOK
    <2>3. PICK e \in EventSet : e = Trade(m, taker.id, arena[m].price, FillQty)
      <3>1. arena[m] \in RestingOrder /\ m \in Nat
        BY <2>1 DEF IInv, TypeOK, BookTypeOK, Ids
      <3>2. FillQty \in Nat
        BY <1>1, FillBounds DEF Fill
      <3>3. Trade(m, taker.id, arena[m].price, FillQty) \in EventSet
        BY <2>1, <3>1, <3>2 DEF Trade, EventSet, Takers, RestingOrder, Ids
      <3> QED BY <3>3
    <2>4. Newest(events') = e
      BY <1>1, <2>3, AppendLast DEF Fill, EventInv
    <2>5. e.maker = m /\ e.price = arena[m].price
      BY <2>3 DEF Trade
    <2>6. ASSUME NEW k \in Resting(ms) \ {m}
          PROVE  /\ AsAggressive(arena[k].side, arena[m].price, arena[k].price)
                 /\ arena[k].price = arena[m].price => m < k
      <3>1. k \in DOMAIN arena /\ arena[k].side = ms /\ arena[k].price \in Int
        BY DEF Resting, IInv, TypeOK, BookTypeOK, RestingOrder
      <3>2. PICK i \in Idx : arena[k].price = idx_to_price(i)
        <4>1. price_to_idx(arena[k].price) # NoIdx
          BY <3>1 DEF IInv, BookOK, IndexesAgree
        <4>2. arena[k].price - TickFloor \in Idx
          BY <4>1 DEF price_to_idx
        <4>3. arena[k].price = idx_to_price(arena[k].price - TickFloor)
          BY <3>1, LadderAssumption DEF idx_to_price
        <4> QED BY <4>2, <4>3
      <3>3. k \in Range(levels[ms][i]) /\ levels[ms][i] \in Seq(Ids)
        BY <2>1, <3>1, <3>2 DEF IInv, TypeOK, BookTypeOK, BookOK, IndexesAgree, Resting
      <3>4. PICK p \in 1 .. Len(levels[ms][i]) : levels[ms][i][p] = k
        BY <3>3 DEF Range
      <3>5. AsAggressive(ms, bi, i)
        <4>1. levels[ms][i] # <<>>
          BY <3>3, <3>4
        <4> QED BY <2>1, <4>1 DEF IInv, BookOK, BestExact, Idx, NoIdx
      <3>6. AsAggressive(arena[k].side, arena[m].price, arena[k].price)
        <4> HIDE DEF m, ms, bi, level
        <4> QED BY <2>1, <2>2, <3>1, <3>2, <3>5, SameOrder
      <3>7. ASSUME arena[k].price = arena[m].price PROVE m < k
        <4>1. i = bi
          <5> HIDE DEF m, ms, bi, level
          <5> QED BY <2>1, <2>2, <3>2, <3>7, SameOrder
        <4>2. p # 1
          BY <2>1, <3>4, <4>1
        <4>3. 1 < p /\ p \in 1 .. Len(level)
          BY <3>4, <4>1, <4>2
        <4> QED BY <2>1, <3>4, <4>1, <4>3 DEF IInv, BookOK, LevelsFifo
      <3> QED BY <3>6, <3>7
    <2> HIDE DEF m, ms
    <2> QED BY <2>2, <2>4, <2>5, <2>6 DEF TradesInPriority
  <1>2. ASSUME ~Fill
        PROVE  events' = <<>> \/ Newest(events').type # "Trade"
    <2>0. events \in Seq(EventSet) /\ best \in [Sides -> Idx \cup {NoIdx}] /\ seq \in Nat
      BY DEF EventInv, IInv, TypeOK, BookTypeOK
    <2>1. ASSUME NEW x, events' = <<x>> PROVE Newest(events') = x
      BY <2>1 DEF Newest
    <2>2. ASSUME NEW o \in NewOrders, RejectOnEntry(o) \/ BeginMatch(o)
          PROVE  events' = <<>> \/ Newest(events').type # "Trade"
      BY <2>1, <2>2 DEF RejectOnEntry, BeginMatch, Rejected
    <2>3. ASSUME NEW a \in Accounts, NEW id \in 1 .. MaxSeq,
                 RejectCancel(a, id) \/ CancelOpen(a, id)
          PROVE  events' = <<>> \/ Newest(events').type # "Trade"
      <3>1. CASE RejectCancel(a, id)
        BY <2>1, <3>1 DEF RejectCancel, Rejected
      <3>2. CASE CancelOpen(a, id)
        <4>1. PICK x : events' = <<x>> /\ x.type = "Cancelled"
          BY <3>2 DEF CancelOpen, Cancelled
        <4> QED BY <2>1, <4>1
      <3> QED BY <2>3, <3>1, <3>2
    <2>4. CASE IgnoreCommand
      BY <2>4 DEF IgnoreCommand
    <2>5. CASE CancelOwnMaker
      <3>1. MakerKey \in Nat
        BY <2>5, MakerExists DEF CancelOwnMaker, IInv, TypeOK, BookTypeOK, Ids
      <3>2. Cancelled(MakerKey) \in EventSet /\ Cancelled(MakerKey).type # "Trade"
        BY <3>1 DEF Cancelled, EventSet
      <3>3. events' = Append(events, Cancelled(MakerKey))
        BY <2>5 DEF CancelOwnMaker
      <3>4. Newest(events') = Cancelled(MakerKey)
        BY <2>0, <3>2, <3>3, AppendLast
      <3> QED BY <3>2, <3>4
    <2>6. CASE ReturnFilled
      BY <2>0, <2>6, BookTopIsEvent, AppendLast DEF ReturnFilled
    <2>7. CASE CancelRemainder
      <3>1. taker.id \in Nat
        BY <2>7 DEF CancelRemainder, Unfilled, IInv, TypeOK, Takers, Ids
      <3>2. PICK d \in EventSet : d = RemainderEvent
        <4>1. Cancelled(taker.id) \in EventSet
          BY <3>1 DEF Cancelled, EventSet
        <4>2. Rejected(taker.id, "IocNoMatch") \in EventSet
          BY <3>1 DEF Rejected, EventSet, Reasons
        <4> QED BY <4>1, <4>2 DEF RemainderEvent
      <3>3. PICK e \in EventSet : e = BookTop(best, levels) /\ e.type = "BookTop"
        BY <2>0, BookTopIsEvent
      <3>4. events' = events \o <<d, e>>
        BY <2>7, <3>2, <3>3 DEF CancelRemainder
      <3> QED BY <2>0, <3>3, <3>4, ConcatTwo
    <2>8. CASE RejectArenaFull
      <3>1. taker.id \in Nat
        BY <2>8 DEF RejectArenaFull, Unfilled, IInv, TypeOK, Takers, Ids
      <3>2. PICK e \in EventSet : e = Rejected(taker.id, "ArenaFull") /\ e.type = "Rejected"
        <4>1. Rejected(taker.id, "ArenaFull") \in EventSet
          BY <3>1 DEF Rejected, EventSet, Reasons
        <4> QED BY <4>1 DEF Rejected
      <3> QED BY <2>0, <2>8, <3>2, AppendLast DEF RejectArenaFull
    <2>9. CASE Rest
      <3>1. best' \in [Sides -> Idx \cup {NoIdx}]
        BY <2>9, RestKeepsIInv DEF IInv, TypeOK, BookTypeOK
      <3>2. PICK e \in EventSet : e = BookTop(best', levels') /\ e.type = "BookTop"
        BY <3>1, BookTopIsEvent
      <3>3. taker.id \in Nat /\ taker.remaining \in Nat
        BY <2>9 DEF Rest, Unfilled, IInv, TypeOK, Takers, Ids
      <3>4. PICK d \in EventSet : d = Accepted(taker.id, taker.remaining)
        <4>1. Accepted(taker.id, taker.remaining) \in EventSet
          BY <3>3 DEF Accepted, EventSet
        <4> QED BY <4>1
      <3>5. events' = events \o <<d, e>>
        BY <2>9, <3>2, <3>4 DEF Rest
      <3> QED BY <2>0, <3>2, <3>5, ConcatTwo
    <2> QED
      BY <1>2, <2>2, <2>3, <2>4, <2>5, <2>6, <2>7, <2>8, <2>9
      DEF Next, MatchStep, FillMaker, FillTaker
  <1> QED BY <1>1, <1>2 DEF TradesInPriority

\* Trades follow price-time priority: the maker is the head of the best level,
\* and BestExact, LevelsFifo and IndexesAgree put nothing of its side before it.
THEOREM AlwaysPriceTimePriority == Spec => PriceTimePriority
  <1>1. IInv /\ EventInv /\ [Next]_vars => [TradesInPriority]_vars
    BY NextPriority
  <1>2. Init => EventInv
    BY DEF Init, EventInv
  <1>3. IInv /\ EventInv /\ [Next]_vars => EventInv'
    BY NextEvents
  <1> QED BY <1>1, <1>2, <1>3, BookConsistent, PTL DEF Spec, PriceTimePriority
=============================================================================
