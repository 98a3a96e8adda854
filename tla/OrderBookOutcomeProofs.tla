----------------------- MODULE OrderBookOutcomeProofs -----------------------
(***************************************************************************)
(* Proofs that every command on OrderBook ends and that what it reports,   *)
(* what it fills and what the fill-or-kill scan promised agree, for every  *)
(* ladder, capacity and set of inputs.                                     *)
(***************************************************************************)
EXTENDS OrderBookProofs, FillScanProofs, FiniteSetTheorems

(***************************************************************************)
(* Each iteration of the loop.                                             *)
(***************************************************************************)
LEMMA ArenaFinite ==
  ASSUME IInv
  PROVE  IsFiniteSet(DOMAIN arena) /\ Cardinality(DOMAIN arena) \in Nat
  <1>1. DOMAIN arena \subseteq 1 .. seq /\ seq \in Nat
    BY DEF IInv, TypeOK, BookTypeOK, Ids, TakerFresh
  <1>2. IsFiniteSet(1 .. seq)
    BY <1>1, FS_Interval
  <1> QED BY <1>1, <1>2, FS_Subset, FS_CardinalityType

\* An iteration fills the taker or takes an order out of the book.
LEMMA IterationShrinks ==
  ASSUME IInv, CancelOwnMaker \/ FillMaker \/ FillTaker
  PROVE  /\ taker \in Takers /\ Matchable
         /\ \/ /\ taker'.remaining = taker.remaining /\ taker' = taker
               /\ Cardinality(DOMAIN arena') = Cardinality(DOMAIN arena) - 1
            \/ /\ taker'.remaining \in 0 .. taker.remaining - 1 /\ taker'.qty = taker.qty
               /\ taker'.tif = taker.tif
               /\ Cardinality(DOMAIN arena') = Cardinality(DOMAIN arena) - 1
            \/ /\ taker'.remaining = 0 /\ taker.remaining > 0 /\ taker'.qty = taker.qty
               /\ taker'.tif = taker.tif /\ DOMAIN arena' = DOMAIN arena
  <1>1. Matchable
    BY DEF CancelOwnMaker, FillMaker, FillTaker, Fill
  <1>2. /\ taker \in Takers /\ MakerSide \in Sides /\ best[MakerSide] \in Idx
        /\ 1 \in 1 .. Len(levels[MakerSide][best[MakerSide]])
        /\ MakerKey \in DOMAIN arena
    BY <1>1, MakerExists
  <1>3. /\ FillQty \in Nat /\ FillQty > 0 /\ FillQty <= taker.remaining
        /\ FillQty <= arena[MakerKey].qty /\ taker.remaining \in Nat
    BY <1>1, <1>2, FillBounds DEF Takers
  <1>4. ASSUME Unlink(MakerSide, best[MakerSide], 1)
        PROVE  Cardinality(DOMAIN arena') = Cardinality(DOMAIN arena) - 1
    <2>1. DOMAIN arena' = DOMAIN arena \ {MakerKey}
      BY <1>2, <1>4, UnlinkKeepsBook, Zenon DEF IInv, MakerKey
    <2> QED BY <1>2, <2>1, ArenaFinite, FS_RemoveElement
  <1>5. ASSUME Fill
        PROVE  /\ taker'.remaining = taker.remaining - FillQty /\ taker'.qty = taker.qty
               /\ taker'.tif = taker.tif
    <2>1. taker' = [taker EXCEPT !.remaining = @ - FillQty]
      BY <1>5 DEF Fill
    <2> QED BY <1>2, <2>1 DEF Takers
  <1>6. CASE CancelOwnMaker
    BY <1>1, <1>2, <1>4, <1>6 DEF CancelOwnMaker
  <1>7. CASE FillMaker
    BY <1>1, <1>2, <1>3, <1>4, <1>5, <1>7 DEF FillMaker
  <1>8. CASE FillTaker
    <2>1. FillQty = taker.remaining
      BY <1>3, <1>8 DEF FillTaker, MakerExhausted, FillQty
    <2>2. DOMAIN arena' = DOMAIN arena
      BY <1>8 DEF FillTaker
    <2>3. taker'.remaining = 0 /\ taker.remaining > 0
      BY <1>3, <1>5, <1>8, <2>1 DEF FillTaker
    <2> QED BY <1>1, <1>2, <1>5, <1>8, <2>2, <2>3 DEF FillTaker
  <1> QED BY <1>6, <1>7, <1>8

\* Every command returns: an iteration of match_against_book that does not end
\* the command leaves less to match, whatever rests in the book.
THEOREM LoopAlwaysDescends == Spec => LoopDescends
  <1>1. IInv /\ [Next]_vars
          => [taker # NoTaker /\ taker' # NoTaker => ToMatch' < ToMatch]_vars
    <2> SUFFICES ASSUME IInv, Next, taker # NoTaker, taker' # NoTaker
                 PROVE  ToMatch' < ToMatch
      OBVIOUS
    <2>1. CancelOwnMaker \/ FillMaker \/ FillTaker
      BY DEF Next, RejectOnEntry, BeginMatch, RejectCancel, CancelOpen, IgnoreCommand,
             NextCommand, MatchStep, ReturnFilled, CancelRemainder, RejectArenaFull, Rest
    <2>2. Cardinality(DOMAIN arena) \in Nat
      BY ArenaFinite
    <2>3. taker.remaining \in Nat
      BY <2>1, IterationShrinks DEF Takers
    <2> QED BY <2>1, <2>2, <2>3, IterationShrinks DEF ToMatch
  <1> QED BY <1>1, BookConsistent, PTL DEF Spec, LoopDescends

(***************************************************************************)
(* A rejection comes without a fill.                                       *)
(***************************************************************************)
LEMMA NextRoom ==
  ASSUME IInv, PartialFillHasRoom, [Next]_vars
  PROVE  PartialFillHasRoom'
  <1> USE DEF PartialFillHasRoom
  <1>0. Cardinality(DOMAIN arena) \in Nat /\ Capacity \in Nat
    BY ArenaFinite, BoundAssumption
  <1>1. ASSUME arena' = arena, taker' = NoTaker
        PROVE  PartialFillHasRoom'
    BY <1>1
  <1>2. ASSUME NEW o \in NewOrders, BeginMatch(o)
        PROVE  PartialFillHasRoom'
    <2>1. arena' = arena /\ taker'.remaining = o.qty /\ taker'.qty = o.qty
      BY <1>2 DEF BeginMatch, book
    <2>2. o.qty \in Nat
      BY InputAssumption, Zenon DEF NewOrders
    <2> QED BY <2>1, <2>2
  <1>3. ASSUME NEW account \in Accounts, NEW id \in 1 .. MaxSeq, CancelOpen(account, id)
        PROVE  PartialFillHasRoom'
    <2>1. taker' = NoTaker
      BY <1>3 DEF CancelOpen, NextCommand
    <2>2. PICK key : DOMAIN arena' = DOMAIN arena \ {key}
      BY <1>3, Zenon DEF CancelOpen, Unlink
    <2>3. Cardinality(DOMAIN arena') <= Cardinality(DOMAIN arena)
      BY <2>2, ArenaFinite, FS_Subset
    <2>4. Cardinality(DOMAIN arena') \in Nat
      BY <2>2, ArenaFinite, FS_Subset, FS_CardinalityType
    <2> QED BY <1>0, <2>1, <2>3, <2>4
  <1>4. CASE CancelOwnMaker \/ FillMaker \/ FillTaker
    <2>1. taker.remaining \in Nat /\ taker.qty \in Nat /\ taker # NoTaker
      BY <1>4, IterationShrinks DEF Takers, Matchable
    <2> QED BY <1>0, <1>4, <2>1, IterationShrinks
  <1>5. CASE Rest
    <2>1. /\ DOMAIN arena' = DOMAIN arena \cup {taker.id} /\ taker' = NoTaker
          /\ ~(Cardinality(DOMAIN arena) >= Capacity)
      BY <1>5 DEF Rest, ArenaFull
    <2>2. \/ Cardinality(DOMAIN arena') = Cardinality(DOMAIN arena)
          \/ Cardinality(DOMAIN arena') = Cardinality(DOMAIN arena) + 1
      BY <2>1, ArenaFinite, FS_AddElement
    <2> QED BY <1>0, <2>1, <2>2
  <1>6. CASE UNCHANGED vars
    BY <1>6 DEF vars
  <1>7. \/ arena' = arena /\ taker' = NoTaker
        \/ \E o \in NewOrders : BeginMatch(o)
        \/ \E account \in Accounts, id \in 1 .. MaxSeq : CancelOpen(account, id)
        \/ CancelOwnMaker \/ FillMaker \/ FillTaker \/ Rest \/ UNCHANGED vars
    BY DEF Next, RejectOnEntry, RejectCancel, IgnoreCommand, NextCommand, MatchStep,
           ReturnFilled, CancelRemainder, RejectArenaFull, book
  <1> QED BY <1>1, <1>2, <1>3, <1>4, <1>5, <1>6, <1>7

\* No step ends in a rejection of an order that already traded.
LEMMA NextRejections ==
  ASSUME IInv, EventInv, PartialFillHasRoom, RejectMeansNoFill, [Next]_vars
  PROVE  RejectMeansNoFill'
  <1>0. /\ events \in Seq(EventSet) /\ best \in [Sides -> Idx \cup {NoIdx}]
        /\ EventInv'
    BY NextEvents DEF EventInv, IInv, TypeOK, BookTypeOK
  <1>2. ASSUME NEW x, events' = <<x>>
        PROVE  RejectMeansNoFill'
    BY <1>2 DEF RejectMeansNoFill
  <1>3. ASSUME events' = <<>>
        PROVE  RejectMeansNoFill'
    BY <1>3 DEF RejectMeansNoFill
  <1>4. CASE ReturnFilled
    <2>1. PICK e \in EventSet : e = BookTop(best, levels) /\ e.type = "BookTop"
      BY <1>0, BookTopIsEvent
    <2>2. /\ events' = Append(events, e)
          /\ \A i \in DOMAIN events : events[i].type # "Rejected"
      BY <1>4, <2>1 DEF ReturnFilled, EventInv
    <2>3. \A i \in DOMAIN events' : events'[i].type # "Rejected"
      BY <1>0, <2>1, <2>2, AppendLast
    <2> QED BY <2>3 DEF RejectMeansNoFill
  <1>5. CASE Rest
    <2>1. best' \in [Sides -> Idx \cup {NoIdx}]
      BY <1>5, RestKeepsIInv DEF IInv, TypeOK, BookTypeOK
    <2>2. PICK e \in EventSet : e = BookTop(best', levels') /\ e.type = "BookTop"
      BY <2>1, BookTopIsEvent
    <2>3. taker.id \in Nat /\ taker.remaining \in Nat
      BY <1>5 DEF Rest, Unfilled, IInv, TypeOK, Takers, Ids
    <2>4. PICK d \in EventSet : d = Accepted(taker.id, taker.remaining) /\ d.type = "Accepted"
      <3>1. Accepted(taker.id, taker.remaining) \in EventSet
        BY <2>3 DEF Accepted, EventSet
      <3> QED BY <3>1 DEF Accepted
    <2>5. /\ events' = events \o <<d, e>>
          /\ \A i \in DOMAIN events : events[i].type # "Rejected"
      BY <1>5, <2>2, <2>4 DEF Rest, Unfilled, EventInv
    <2>6. \A i \in DOMAIN events' : events'[i].type # "Rejected"
      BY <1>0, <2>2, <2>4, <2>5, ConcatTwo
    <2> QED BY <2>6 DEF RejectMeansNoFill
  <1>6. CASE CancelRemainder
    <2>1. PICK e \in EventSet : e = BookTop(best, levels) /\ e.type = "BookTop"
      BY <1>0, BookTopIsEvent
    <2>2. taker \in Takers /\ taker.id \in Nat /\ taker # NoTaker
      BY <1>6 DEF CancelRemainder, Unfilled, IInv, TypeOK, Takers, Ids
    <2>3. CASE taker.remaining < taker.qty
      <3>1. PICK d \in EventSet : d = Cancelled(taker.id) /\ d.type = "Cancelled"
        <4>1. Cancelled(taker.id) \in EventSet
          BY <2>2 DEF Cancelled, EventSet
        <4> QED BY <4>1 DEF Cancelled
      <3>2. /\ events' = events \o <<d, e>>
            /\ \A i \in DOMAIN events : events[i].type # "Rejected"
        BY <1>6, <2>1, <2>2, <2>3, <3>1, Zenon DEF CancelRemainder, RemainderEvent, EventInv
      <3>3. \A i \in DOMAIN events' : events'[i].type # "Rejected"
        BY <1>0, <2>1, <3>1, <3>2, ConcatTwo
      <3> QED BY <3>3 DEF RejectMeansNoFill
    <2>4. CASE ~(taker.remaining < taker.qty)
      <3>1. PICK d \in EventSet : d = Rejected(taker.id, "IocNoMatch") /\ d.type = "Rejected"
        <4>1. Rejected(taker.id, "IocNoMatch") \in EventSet
          BY <2>2 DEF Rejected, EventSet, Reasons
        <4> QED BY <4>1 DEF Rejected
      <3>2. /\ events' = events \o <<d, e>>
            /\ \A i \in DOMAIN events : events[i].type # "Trade"
        BY <1>6, <2>1, <2>2, <2>4, <3>1 DEF CancelRemainder, RemainderEvent, EventInv
      <3>3. \A i \in DOMAIN events' : events'[i].type # "Trade"
        BY <1>0, <2>1, <3>1, <3>2, ConcatTwo
      <3> QED BY <3>3 DEF RejectMeansNoFill
    <2> QED BY <2>3, <2>4
  <1>7. CASE RejectArenaFull
    <2>1. taker \in Takers /\ taker.id \in Nat /\ taker # NoTaker
      BY <1>7 DEF RejectArenaFull, Unfilled, IInv, TypeOK, Takers, Ids
    <2>2. PICK e \in EventSet : e = Rejected(taker.id, "ArenaFull") /\ e.type = "Rejected"
      <3>1. Rejected(taker.id, "ArenaFull") \in EventSet
        BY <2>1 DEF Rejected, EventSet, Reasons
      <3> QED BY <3>1 DEF Rejected
    <2>3. ~(taker.remaining < taker.qty)
      <3>1. /\ taker.remaining > 0 /\ Cardinality(DOMAIN arena) >= Capacity
            /\ Cardinality(DOMAIN arena) \in Nat /\ Capacity \in Nat
        BY <1>7, ArenaFinite, BoundAssumption DEF RejectArenaFull, Unfilled, ArenaFull
      <3>2. taker.remaining \in Nat /\ taker.qty \in Nat
        BY <2>1 DEF Takers
      <3> QED BY <2>1, <3>1, <3>2 DEF PartialFillHasRoom
    <2>4. /\ events' = Append(events, e)
          /\ \A i \in DOMAIN events : events[i].type # "Trade"
      BY <1>7, <2>1, <2>2, <2>3 DEF RejectArenaFull, EventInv
    <2>5. \A i \in DOMAIN events' : events'[i].type # "Trade"
      BY <1>0, <2>2, <2>4, AppendLast
    <2> QED BY <2>5 DEF RejectMeansNoFill
  <1>8. CASE UNCHANGED vars
    BY <1>8 DEF vars, RejectMeansNoFill
  <1>9. CASE CancelOwnMaker \/ FillMaker \/ FillTaker
    <2>2. taker # NoTaker
      BY <1>9 DEF CancelOwnMaker, FillMaker, FillTaker, Fill, Matchable
    <2>3. \A i \in DOMAIN events : events[i].type # "Rejected"
      BY <2>2 DEF EventInv
    <2>4. PICK e \in EventSet : events' = Append(events, e) /\ e.type # "Rejected"
      <3>0. /\ taker \in Takers /\ MakerKey \in DOMAIN arena /\ MakerKey \in Nat
            /\ arena[MakerKey] \in RestingOrder /\ FillQty \in Nat
        BY <1>9, MakerExists, FillBounds
        DEF CancelOwnMaker, FillMaker, FillTaker, Fill, IInv, TypeOK, BookTypeOK, Ids
      <3>1. Cancelled(MakerKey) \in EventSet /\ Cancelled(MakerKey).type # "Rejected"
        BY <3>0 DEF Cancelled, EventSet
      <3>2. /\ Trade(MakerKey, taker.id, arena[MakerKey].price, FillQty) \in EventSet
            /\ Trade(MakerKey, taker.id, arena[MakerKey].price, FillQty).type # "Rejected"
        BY <3>0 DEF Trade, EventSet, Takers, RestingOrder, Ids
      <3>3. CASE CancelOwnMaker
        BY <3>1, <3>3 DEF CancelOwnMaker
      <3>4. CASE Fill
        BY <3>2, <3>4 DEF Fill
      <3> QED BY <1>9, <3>3, <3>4 DEF FillMaker, FillTaker
    <2>5. \A i \in DOMAIN events' : events'[i].type # "Rejected"
      BY <1>0, <2>3, <2>4, AppendLast
    <2> QED BY <2>5 DEF RejectMeansNoFill
  <1> QED
    BY <1>2, <1>3, <1>4, <1>5, <1>6, <1>7, <1>8, <1>9
    DEF Next, RejectOnEntry, BeginMatch, RejectCancel, CancelOpen, IgnoreCommand, MatchStep

(***************************************************************************)
(* The fill-or-kill scan and the matching loop.                            *)
(***************************************************************************)

\* Levels list orders of the arena.
LEMMA LadderOfArena ==
  ASSUME NEW D, NEW s \in Seq(Ids), \A i \in 1 .. Len(s) : s[i] \in D
  PROVE  s \in Seq(D)
  OBVIOUS

Scannable ==
  /\ Orders(arena)
  /\ \A side \in Sides : levels[side] \in [Idx -> Seq(DOMAIN arena)]

\* What the scan needs of a book follows from BookOK.
LEMMA BookScans == BookOK => Scannable
  <1> SUFFICES ASSUME BookOK PROVE Scannable
    OBVIOUS
  <1>1. Orders(arena)
    BY DEF BookOK, BookTypeOK, Orders, RestingOrder
  <1>2. ASSUME NEW side \in Sides, NEW i \in Idx
        PROVE  levels[side][i] \in Seq(DOMAIN arena)
    <2>1. PICK l \in Seq(Ids) : l = levels[side][i]
      BY DEF BookOK, BookTypeOK
    <2>2. \A p \in 1 .. Len(l) : l[p] \in DOMAIN arena
      BY <2>1, LevelMember DEF BookOK
    <2> QED BY <2>1, <2>2, LadderOfArena
  <1>3. \A side \in Sides : levels[side] = [i \in Idx |-> levels[side][i]]
    BY DEF BookOK, BookTypeOK
  <1> QED BY <1>1, <1>2, <1>3, Zenon DEF Scannable

\* The same of the book after a step.
LEMMA BookScansNext ==
  BookOK' => Scannable'
  BY BookScans, PTL

\* The strengthening FokNeverUnfilled needs: what the scan found before the
\* first fill, the rest of the book still covers after each one.
FokCovered ==
  taker # NoTaker /\ taker.tif = "Fok" =>
    ScanLeft(Terms(taker), taker.remaining, arena, levels[MakerSide]) = 0

\* An iteration that removes the maker takes the head of the scan.
LEMMA UnlinkTakesHead ==
  ASSUME IInv, Matchable, Unlink(MakerSide, best[MakerSide], 1)
  PROVE  /\ IsScan(Terms(taker), taker.remaining, arena, levels[MakerSide])
         /\ IsScan(Terms(taker), 0, arena', levels'[MakerSide])
         /\ \E s : HeadTaken(Terms(taker), arena, levels[MakerSide],
                             arena', levels'[MakerSide], s, best[MakerSide])
  <1> DEFINE o      == Terms(taker)
             ms     == MakerSide
             bi     == best[MakerSide]
             ladder == levels[MakerSide]
             shrunk == levels'[MakerSide]
  <1>1. /\ taker \in Takers /\ ms \in Sides /\ bi \in Idx /\ 1 \in 1 .. Len(ladder[bi])
        /\ MakerKey \in DOMAIN arena /\ MakerKey = ladder[bi][1]
    BY MakerExists DEF MakerKey
  <1>2. /\ o.side = taker.side /\ o.price = taker.price /\ o.order_type = taker.order_type
        /\ o.side \in Sides /\ taker.remaining \in Nat /\ ms = Opposite(o.side)
    BY <1>1 DEF Terms, Takers, MakerSide
  <1>3. BookOK /\ BookOK' /\ levels \in [Sides -> [Idx -> Seq(Ids)]]
    BY <1>1, UnlinkKeepsBook, Zenon DEF IInv, BookOK, BookTypeOK
  <1>4. Orders(arena) /\ ladder \in [Idx -> Seq(DOMAIN arena)]
    BY <1>1, <1>3, BookScans DEF Scannable
  <1>5. Orders(arena') /\ shrunk \in [Idx -> Seq(DOMAIN arena')]
    BY <1>1, <1>3, BookScansNext DEF Scannable
  <1>6. IsScan(o, taker.remaining, arena, ladder) /\ IsScan(o, 0, arena', shrunk)
    BY <1>2, <1>4, <1>5 DEF IsScan
  <1>7. /\ arena' = [k \in DOMAIN arena \ {MakerKey} |-> arena[k]]
        /\ shrunk = [ladder EXCEPT ![bi] = Without(@, 1)]
    BY <1>1, <1>3 DEF Unlink, MakerKey
  <1> DEFINE s == IF o.side = "Buy" THEN bi + 1 ELSE NumTicks - bi
  <1>8. s \in 1 .. NumTicks /\ bi = ScanIdx(o.side, s)
    BY <1>1, LadderAssumption DEF Idx, ScanIdx
  <1> HIDE DEF s
  <1>9. ASSUME NEW n \in 1 .. s - 1
        PROVE  ladder[ScanIdx(o.side, n)] = <<>> /\ shrunk[ScanIdx(o.side, n)] = <<>>
    <2>0. ScanIdx(o.side, n) \in Idx
      BY <1>1, <1>2, <1>8, LadderAssumption DEF Idx, ScanIdx
    <2>1. PICK j \in Idx : j = ScanIdx(o.side, n)
      BY <2>0
    <2>2. j # bi /\ ~AsAggressive(ms, bi, j)
      <3> HIDE DEF o, ms, bi
      <3>1. CASE o.side = "Buy"
        <4>1. bi = s - 1 /\ j = n - 1 /\ ms = "Sell"
          BY <1>2, <1>8, <2>1, <3>1 DEF ScanIdx, Opposite
        <4> QED BY <1>8, <4>1, LadderAssumption DEF AsAggressive
      <3>2. CASE o.side = "Sell"
        <4>1. bi = NumTicks - s /\ j = NumTicks - n /\ ms = "Buy"
          BY <1>2, <1>8, <2>1, <3>2 DEF ScanIdx, Opposite
        <4> QED BY <1>8, <4>1, LadderAssumption DEF AsAggressive
      <3> QED BY <1>2, <3>1, <3>2 DEF Sides
    <2>3. ladder[j] = <<>>
      BY <1>1, <1>3, <2>2 DEF BookOK, BestExact, Idx, NoIdx
    <2>4. shrunk[j] = ladder[j]
      BY <1>4, <1>7, <2>2
    <2> QED BY <2>1, <2>3, <2>4
  <1>10. Untouched(o, ladder, s - 1) /\ Untouched(o, shrunk, s - 1)
    BY <1>9 DEF Untouched
  <1>11. IsRest(arena, ladder[bi], arena', shrunk[bi])
    <2>1. PICK l \in Seq(Ids) : l = ladder[bi]
      BY <1>1, <1>3
    <2>2. shrunk[bi] = Without(l, 1)
      BY <1>1, <1>4, <1>7, <2>1
    <2>3. PICK r \in Seq(Ids) : r = shrunk[bi]
      BY <1>1, <2>1, <2>2, WithoutProperties
    <2>4. /\ Len(r) = Len(l) - 1
          /\ \A p \in 1 .. Len(l) - 1 : r[p] = IF p < 1 THEN l[p] ELSE l[p + 1]
      <3>1. PICK i \in 1 .. Len(l) : i = 1
        BY <1>1, <2>1
      <3>2. /\ Len(Without(l, i)) = Len(l) - 1
            /\ \A p \in 1 .. Len(l) - 1 : Without(l, i)[p] = IF p < i THEN l[p] ELSE l[p + 1]
        BY WithoutProperties, Zenon
      <3> QED BY <2>2, <2>3, <3>1, <3>2
    <2>5. Len(l) = Len(r) + 1
      BY <2>4
    <2>6. ASSUME NEW n \in 1 .. Len(r)
          PROVE  r[n] = l[n + 1] /\ arena[l[n + 1]] = arena'[r[n]]
      <3>1. r[n] = l[n + 1] /\ n + 1 \in 1 .. Len(l) /\ 1 < n + 1
        BY <2>4, <2>5
      <3>2. l[n + 1] \in DOMAIN arena
        BY <1>1, <1>3, <2>1, <3>1, LevelMember DEF BookOK
      <3>3. l[1] < l[n + 1]
        BY <1>1, <1>3, <2>1, <3>1 DEF BookOK, LevelsFifo
      <3>4. l[1] \in Nat /\ l[n + 1] \in Nat
        <4>1. 1 \in 1 .. Len(l)
          BY <1>1, <2>1
        <4>2. l[1] \in Ids /\ l[n + 1] \in Ids
          BY <3>1, <4>1
        <4> QED BY <4>2 DEF Ids
      <3>5. l[n + 1] # MakerKey
        BY <1>1, <2>1, <3>3, <3>4
      <3> QED BY <1>7, <3>1, <3>2, <3>5
    <2> QED BY <2>1, <2>3, <2>5, <2>6, Zenon DEF IsRest
  <1>12. ASSUME NEW j \in Idx \ {bi}
         PROVE  shrunk[j] = ladder[j] /\ Alike(arena, arena', ladder[j])
    <2>1. shrunk[j] = ladder[j]
      BY <1>4, <1>7
    <2>2. ladder[j] \in Seq(DOMAIN arena')
      BY <1>5, <2>1
    <2>3. \A n \in 1 .. Len(ladder[j]) : ladder[j][n] \in DOMAIN arena'
      BY <2>2
    <2> QED BY <1>7, <2>1, <2>2, <2>3 DEF Alike
  <1>13. Crosses(o.side, o.price, o.order_type, bi)
    BY <1>2 DEF Matchable
  <1> HIDE DEF o, ms, bi, ladder, shrunk
  <1>14. HeadTaken(o, arena, ladder, arena', shrunk, s, bi)
    BY <1>1, <1>8, <1>10, <1>11, <1>12, <1>13 DEF HeadTaken
  <1> QED BY <1>6, <1>14 DEF o, ladder, shrunk, bi

\* A Fill of a FOK order leaves enough on the book for the rest of it.
LEMMA NextCovered ==
  ASSUME IInv, FokCovered, [Next]_vars
  PROVE  FokCovered'
  <1>1. ASSUME NEW o \in NewOrders, BeginMatch(o)
        PROVE  FokCovered'
    <2>1. /\ taker' = [id |-> seq', account |-> o.account, side |-> o.side, price |-> o.price,
                       qty |-> o.qty, remaining |-> o.qty, order_type |-> o.order_type,
                       tif |-> o.tif]
          /\ arena' = arena /\ levels' = levels /\ Validate(o) = "Ok"
      BY <1>1 DEF BeginMatch, book
    <2>2. Terms(taker') = Terms(o) /\ taker'.remaining = o.qty /\ taker'.tif = o.tif
      BY <2>1 DEF Terms
    <2>3. MakerSide' = Opposite(o.side)
      BY <2>1 DEF MakerSide
    <2>4. o.tif = "Fok" => CanFullyFill(o)
      BY <2>1 DEF Validate
    <2> QED BY <2>1, <2>2, <2>3, <2>4 DEF FokCovered, CanFullyFill
  <1>2. ASSUME Matchable, Unlink(MakerSide, best[MakerSide], 1), taker.tif = "Fok",
               Terms(taker') = Terms(taker), MakerSide' = MakerSide,
               taker'.remaining = Deduct(Terms(taker), taker.remaining, arena[MakerKey])
        PROVE  FokCovered'
    <2>1. PICK s : HeadTaken(Terms(taker), arena, levels[MakerSide],
                             arena', levels'[MakerSide], s, best[MakerSide])
      BY <1>2, UnlinkTakesHead
    <2>2. /\ IsScan(Terms(taker), taker.remaining, arena, levels[MakerSide])
          /\ IsScan(Terms(taker), 0, arena', levels'[MakerSide])
      BY <1>2, UnlinkTakesHead
    <2>3. ScanLeft(Terms(taker), taker.remaining, arena, levels[MakerSide])
            = ScanLeft(Terms(taker), taker'.remaining, arena', levels'[MakerSide])
      <3>1. ScanLeft(Terms(taker), taker.remaining, arena, levels[MakerSide])
              = ScanLeft(Terms(taker),
                         Deduct(Terms(taker), taker.remaining,
                                arena[levels[MakerSide][best[MakerSide]][1]]),
                         arena', levels'[MakerSide])
        BY <2>1, <2>2, ScanHead
      <3> QED BY <1>2, <3>1 DEF MakerKey
    <2>4. ScanLeft(Terms(taker), taker.remaining, arena, levels[MakerSide]) = 0
      BY <1>2 DEF FokCovered, Matchable
    <2> QED BY <1>2, <2>3, <2>4 DEF FokCovered
  <1>3. ASSUME Matchable
        PROVE  /\ taker \in Takers /\ taker # NoTaker /\ taker.remaining \in Nat
               /\ Terms(taker).account = taker.account
               /\ arena[MakerKey].qty \in Nat /\ FillQty \in Nat /\ FillQty <= taker.remaining
    BY <1>3, MakerExists, FillBounds
    DEF Matchable, Takers, Terms, IInv, TypeOK, BookTypeOK, RestingOrder
  <1>4. CASE CancelOwnMaker
    <2>1. /\ Matchable /\ taker' = taker /\ arena[MakerKey].account = taker.account
          /\ Unlink(MakerSide, best[MakerSide], 1)
      BY <1>4 DEF CancelOwnMaker
    <2>2. MakerSide' = MakerSide /\ Terms(taker') = Terms(taker)
      BY <2>1 DEF MakerSide
    <2>3. taker'.remaining = Deduct(Terms(taker), taker.remaining, arena[MakerKey])
      BY <1>3, <2>1 DEF Deduct
    <2>4. CASE taker.tif = "Fok"
      BY <1>2, <2>1, <2>2, <2>3, <2>4
    <2>5. CASE taker.tif # "Fok"
      BY <2>1, <2>5 DEF FokCovered
    <2> QED BY <2>4, <2>5
  <1>5. ASSUME Fill
        PROVE  /\ Matchable /\ arena[MakerKey].account # taker.account
               /\ MakerSide' = MakerSide /\ Terms(taker') = Terms(taker)
               /\ taker'.tif = taker.tif /\ taker'.remaining = taker.remaining - FillQty
    <2>1. /\ Matchable /\ arena[MakerKey].account # taker.account
          /\ taker' = [taker EXCEPT !.remaining = @ - FillQty]
      BY <1>5 DEF Fill
    <2>2. taker \in Takers
      BY <1>3, <2>1
    <2>3. /\ taker'.tif = taker.tif /\ taker'.remaining = taker.remaining - FillQty
          /\ taker'.account = taker.account /\ taker'.side = taker.side
          /\ taker'.price = taker.price /\ taker'.order_type = taker.order_type
      BY <2>1, <2>2 DEF Takers
    <2> QED BY <2>1, <2>3 DEF Terms, MakerSide
  <1>6. CASE FillMaker
    <2>1. Fill /\ FillQty = arena[MakerKey].qty /\ Unlink(MakerSide, best[MakerSide], 1)
      BY <1>6 DEF FillMaker, MakerExhausted
    <2>2. taker'.remaining = Deduct(Terms(taker), taker.remaining, arena[MakerKey])
      <3>1. /\ FillQty \in Nat /\ FillQty <= taker.remaining /\ taker.remaining \in Nat
            /\ Terms(taker).account # arena[MakerKey].account
            /\ taker'.remaining = taker.remaining - FillQty
        BY <1>3, <1>5, <2>1
      <3> QED BY <2>1, <3>1 DEF Deduct
    <2>3. CASE taker.tif = "Fok"
      BY <1>2, <1>5, <2>1, <2>2, <2>3
    <2>4. CASE taker.tif # "Fok"
      BY <1>5, <2>1, <2>4 DEF FokCovered
    <2> QED BY <2>3, <2>4
  <1>7. CASE FillTaker
    <2>1. Fill /\ BookOK'
      BY <1>7, LoopKeepsIInv DEF FillTaker, IInv
    <2>2. taker'.remaining = 0
      <3>1. FillQty = taker.remaining
        BY <1>7 DEF FillTaker, MakerExhausted, FillQty
      <3>2. taker.remaining \in Nat /\ taker'.remaining = taker.remaining - FillQty
        BY <1>3, <1>5, <2>1
      <3> QED BY <3>1, <3>2
    <2>3. Terms(taker').side \in Sides /\ MakerSide' \in Sides
      BY <1>3, <1>5, <2>1, MakerExists DEF Terms, Takers
    <2>4. Orders(arena') /\ levels'[MakerSide'] \in [Idx -> Seq(DOMAIN arena')]
      BY <2>1, <2>3, BookScansNext DEF Scannable
    <2>5. ScanLeft(Terms(taker'), 0, arena', levels'[MakerSide']) = 0
      BY <2>3, <2>4, ScanOfNothing
    <2> QED BY <2>2, <2>5 DEF FokCovered
  <1>8. CASE taker' = NoTaker
    BY <1>8 DEF FokCovered
  <1>9. CASE UNCHANGED vars
    BY <1>9 DEF vars, FokCovered, MakerSide
  <1> QED
    BY <1>1, <1>4, <1>6, <1>7, <1>8, <1>9
    DEF Next, RejectOnEntry, RejectCancel, CancelOpen, IgnoreCommand, NextCommand, MatchStep,
        ReturnFilled, CancelRemainder, RejectArenaFull, Rest

\* When the loop has nothing left to match, neither has the scan.
LEMMA CoveredIsFilled ==
  ASSUME IInv, FokCovered
  PROVE  FokNeverUnfilled
  <1> SUFFICES ASSUME Unfilled, taker.tif = "Fok" PROVE FALSE
    BY DEF FokNeverUnfilled
  <1> DEFINE o      == Terms(taker)
             ms     == MakerSide
             ladder == levels[MakerSide]
  <1>1. taker \in Takers /\ taker # NoTaker /\ taker.remaining \in Nat /\ taker.remaining > 0
    BY DEF Unfilled, IInv, TypeOK, Takers
  <1>2. /\ o.side = taker.side /\ o.price = taker.price /\ o.order_type = taker.order_type
        /\ o.side \in Sides /\ ms = Opposite(o.side) /\ ms \in Sides /\ o.price \in Int
    BY <1>1 DEF Terms, Takers, MakerSide, Opposite, Sides
  <1>3. Orders(arena) /\ ladder \in [Idx -> Seq(DOMAIN arena)]
    BY <1>2, BookScans DEF Scannable, IInv
  <1>4. IsScan(o, taker.remaining, arena, ladder)
    BY <1>1, <1>2, <1>3 DEF IsScan
  <1>5. ASSUME NEW n \in 1 .. NumTicks
        PROVE  \/ ladder[ScanIdx(o.side, n)] = <<>>
               \/ ~Crosses(o.side, o.price, o.order_type, ScanIdx(o.side, n))
    <2>1. ScanIdx(o.side, n) \in Idx
      BY <1>2, LadderAssumption DEF ScanIdx, Idx
    <2>2. PICK j \in Idx : j = ScanIdx(o.side, n)
      BY <2>1
    <2> SUFFICES ASSUME ladder[j] # <<>> PROVE ~Crosses(o.side, o.price, o.order_type, j)
      BY <2>2
    <2>3. best[ms] # NoIdx /\ AsAggressive(ms, best[ms], j)
      BY <1>2 DEF IInv, BookOK, BestExact
    <2>4. best[ms] \in Idx
      BY <1>2, <2>3 DEF IInv, TypeOK, BookTypeOK
    <2>5. ~Crosses(o.side, o.price, o.order_type, best[ms])
      BY <1>1, <1>2, <2>3 DEF Unfilled, Matchable
    <2> QED
      BY <1>2, <2>3, <2>4, <2>5, LadderAssumption
      DEF Crosses, AsAggressive, idx_to_price, Idx, Opposite, Sides
  <1>6. Untouched(o, ladder, NumTicks) /\ NumTicks \in 0 .. NumTicks
    BY <1>5, LadderAssumption DEF Untouched
  <1>7. PICK left : IsLadderWalk(left, o, taker.remaining, arena, ladder)
    BY <1>1, <1>2, <1>3, LadderWalk
  <1>9. ScanLeft(o, taker.remaining, arena, ladder) = 0
    BY <1>1 DEF FokCovered
  <1> HIDE DEF o, ladder
  <1>8. left[NumTicks] = taker.remaining
    BY <1>4, <1>6, <1>7, ScanUntouched
  <1> QED BY <1>1, <1>7, <1>8, <1>9 DEF IsLadderWalk

\* What apply() reports is what it did, for every ladder, capacity and order: a
\* partially filled taker finds room in the arena, a rejection carries no trade,
\* and a fill-or-kill order that passed can_fully_fill is filled by the loop.
THEOREM OutcomesAlwaysAgree == Spec => []OutcomesAgree
  <1> DEFINE Outcomes == EventInv /\ PartialFillHasRoom /\ RejectMeansNoFill /\ FokCovered
  <1>1. Init => Outcomes
    <2> SUFFICES ASSUME Init PROVE Outcomes
      OBVIOUS
    <2>1. DOMAIN arena = {} /\ taker = NoTaker /\ events = <<>>
      BY DEF Init
    <2>2. Cardinality(DOMAIN arena) = 0
      BY <2>1, FS_EmptySet
    <2> QED
      BY <2>1, <2>2, BoundAssumption
      DEF EventInv, PartialFillHasRoom, RejectMeansNoFill, FokCovered
  <1>2. IInv /\ Outcomes /\ [Next]_vars => Outcomes'
    BY NextEvents, NextRoom, NextRejections, NextCovered
  <1>3. IInv /\ Outcomes => OutcomesAgree
    BY CoveredIsFilled DEF OutcomesAgree
  <1> QED BY <1>1, <1>2, <1>3, BookConsistent, PTL DEF Spec

=============================================================================
