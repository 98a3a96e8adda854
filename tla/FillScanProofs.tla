--------------------------- MODULE FillScanProofs ---------------------------
(***************************************************************************)
(* Proofs about the fill-or-kill scan of OrderBook as a function: what it  *)
(* deducts along a level and along the ladder, and that deducting the head *)
(* of the best level first comes to the same.                              *)
(***************************************************************************)
EXTENDS OrderBook, WellFoundedInduction, TLAPS

\* Induction up to a bound, for a set instead of a predicate.
LEMMA UpTo ==
  ASSUME NEW N \in Nat, NEW m \in 0 .. N, NEW S,
         m \in S, \A n \in m .. N - 1 : n \in S => n + 1 \in S
  PROVE  \A n \in m .. N : n \in S
  <1> DEFINE R == OpToRel(<, Nat)
             T == {n \in m .. N : n \notin S}
  <1>1. IsWellFoundedOn(R, Nat)
    BY NatLessThanWellFounded, Zenon
  <1>2. ASSUME NEW x \in Nat, NEW y \in Nat, ~(<<y, x>> \in R)
        PROVE  x <= y
    BY <1>2 DEF OpToRel
  <1>3. T \subseteq Nat
    OBVIOUS
  <1> HIDE DEF R
  <1>4. SUFFICES ASSUME T # {} PROVE FALSE
    OBVIOUS
  <1>5. PICK k \in T : \A j \in T : ~(<<j, k>> \in R)
    BY <1>1, <1>3, <1>4, WFMin, Zenon
  <1>6. k \in Nat /\ k \in m .. N /\ k \notin S /\ k # m
    OBVIOUS
  <1>7. k - 1 \in m .. N - 1 /\ k - 1 \in Nat /\ (k - 1) + 1 = k
    BY <1>6
  <1>8. k - 1 \in T
    BY <1>6, <1>7
  <1>9. k <= k - 1
    BY <1>2, <1>5, <1>6, <1>7, <1>8, Zenon
  <1> QED BY <1>6, <1>9

\* The orders of an arena.
Orders(a) == \A k \in DOMAIN a : a[k].qty \in Nat

\* What is left after one resting order is a quantity, and nothing stays nothing.
LEMMA DeductType ==
  ASSUME NEW o, NEW rem \in Nat, NEW order, order.qty \in Nat
  PROVE  Deduct(o, rem, order) \in Nat /\ (rem = 0 => Deduct(o, rem, order) = 0)
  BY DEF Deduct

\* left[n] remains after the first n orders of the level.
IsLevelWalk(left, o, rem, a, level) ==
  /\ left \in [0 .. Len(level) -> Nat]
  /\ left[0] = rem
  /\ \A n \in 1 .. Len(level) : left[n] = Deduct(o, left[n - 1], a[level[n]])
  /\ DeductLevel(o, rem, a, level) = left[Len(level)]

\* The walk along a level, order by order.
LEMMA LevelWalk ==
  ASSUME NEW o, NEW rem \in Nat, NEW a, Orders(a), NEW level \in Seq(DOMAIN a)
  PROVE  \E left : IsLevelWalk(left, o, rem, a, level)
  <1> DEFINE Def(v, n) == Deduct(o, v, a[level[n]])
             N == Len(level)
             left == CHOOSE f : f = [n \in 0 .. N |-> IF n = 0 THEN rem ELSE Def(f[n - 1], n)]
  <1>1. DeductLevel(o, rem, a, level) = left[N]
    BY DEF DeductLevel
  <1>2. FiniteNatInductiveDefHypothesis(left, rem, Def, 0, N)
    BY DEF FiniteNatInductiveDefHypothesis
  <1>3. \A v \in Nat, n \in 1 .. N : Def(v, n) \in Nat
    <2> SUFFICES ASSUME NEW v \in Nat, NEW n \in 1 .. N PROVE Def(v, n) \in Nat
      BY Zenon
    <2>1. a[level[n]].qty \in Nat
      BY DEF Orders
    <2> QED BY <2>1, DeductType
  <1>4. N \in Nat
    OBVIOUS
  <1>5. \A v, n : Def(v, n) = Deduct(o, v, a[level[n]])
    OBVIOUS
  <1> HIDE DEF Def, left, N
  <1>6. FiniteNatInductiveDefConclusion(left, rem, Def, 0, N)
    BY <1>2, <1>4, FiniteNatInductiveDef
  <1>7. left = [n \in 0 .. N |-> IF n = 0 THEN rem ELSE Def(left[n - 1], n)]
    BY <1>6, Zenon DEF FiniteNatInductiveDefConclusion
  <1>9. left[0] = rem
    BY <1>4, <1>7
  <1>8. left \in [0 .. N -> Nat]
    <2> DEFINE S == {n \in 0 .. N : left[n] \in Nat}
    <2>1. 0 \in S /\ 0 \in 0 .. N
      BY <1>4, <1>9
    <2>2. ASSUME NEW n \in 0 .. N - 1, n \in S PROVE n + 1 \in S
      <3>1. n + 1 \in 1 .. N /\ n + 1 \in 0 .. N /\ (n + 1) - 1 = n /\ n + 1 # 0
        BY <1>4
      <3>2. left[n + 1] = Def(left[n], n + 1)
        BY <1>7, <3>1, Zenon
      <3> QED BY <1>3, <2>2, <3>1, <3>2, Zenon
    <2>3. \A n \in 0 .. N : n \in S
      <3> HIDE DEF S
      <3> QED BY <1>4, <2>1, <2>2, UpTo
    <2> QED BY <1>7, <2>3
  <1>10. ASSUME NEW n \in 1 .. N PROVE left[n] = Deduct(o, left[n - 1], a[level[n]])
    BY <1>4, <1>5, <1>7
  <1> QED BY <1>1, <1>8, <1>9, <1>10 DEF N, IsLevelWalk

\* What is left after a level is a quantity; an empty level deducts nothing.
LEMMA LevelFacts ==
  ASSUME NEW o, NEW rem \in Nat, NEW a, Orders(a), NEW level \in Seq(DOMAIN a)
  PROVE  /\ DeductLevel(o, rem, a, level) \in Nat
         /\ level = <<>> => DeductLevel(o, rem, a, level) = rem
         /\ rem = 0 => DeductLevel(o, rem, a, level) = 0
  <1> DEFINE N == Len(level)
  <1>0. PICK left : IsLevelWalk(left, o, rem, a, level)
    BY LevelWalk, Zenon
  <1>1. /\ left \in [0 .. N -> Nat] /\ left[0] = rem
        /\ \A n \in 1 .. N : left[n] = Deduct(o, left[n - 1], a[level[n]])
        /\ DeductLevel(o, rem, a, level) = left[N]
    BY <1>0 DEF IsLevelWalk
  <1>2. N \in Nat /\ (level = <<>> => N = 0) /\ \A n \in 1 .. N : a[level[n]].qty \in Nat
    BY DEF Orders
  <1> HIDE DEF N
  <1>3. ASSUME rem = 0 PROVE left[N] = 0
    <2> DEFINE S == {n \in 0 .. N : left[n] = 0}
    <2>1. 0 \in S /\ 0 \in 0 .. N
      BY <1>1, <1>2, <1>3
    <2>2. ASSUME NEW n \in 0 .. N - 1, n \in S PROVE n + 1 \in S
      <3>1. n + 1 \in 1 .. N /\ n + 1 \in 0 .. N /\ (n + 1) - 1 = n
        BY <1>2
      <3>2. left[n + 1] = Deduct(o, 0, a[level[n + 1]])
        BY <1>1, <2>2, <3>1
      <3> QED BY <1>2, <3>1, <3>2, DeductType
    <2>3. \A n \in 0 .. N : n \in S
      <3> HIDE DEF S
      <3> QED BY <1>2, <2>1, <2>2, UpTo, Zenon
    <2> QED BY <1>2, <2>3
  <1> QED BY <1>1, <1>2, <1>3

\* Both arenas have the same orders of the level.
Alike(a, b, level) ==
  level \in Seq(DOMAIN b) /\ \A n \in 1 .. Len(level) : a[level[n]] = b[level[n]]

\* The walk sees only the orders of the level.
LEMMA LevelSame ==
  ASSUME NEW o, NEW rem \in Nat, NEW a, Orders(a), NEW b, Orders(b),
         NEW level \in Seq(DOMAIN a), Alike(a, b, level)
  PROVE  DeductLevel(o, rem, a, level) = DeductLevel(o, rem, b, level)
  <1> DEFINE N == Len(level)
  <1>0. PICK f, g : IsLevelWalk(f, o, rem, a, level) /\ IsLevelWalk(g, o, rem, b, level)
    <2>1. PICK m \in Seq(DOMAIN b) : m = level
      BY DEF Alike
    <2>2. \E g : IsLevelWalk(g, o, rem, b, m)
      BY LevelWalk, Zenon
    <2>3. \E f : IsLevelWalk(f, o, rem, a, level)
      BY LevelWalk, Zenon
    <2> QED BY <2>1, <2>2, <2>3
  <1>1. /\ f \in [0 .. N -> Nat] /\ f[0] = rem
        /\ \A n \in 1 .. N : f[n] = Deduct(o, f[n - 1], a[level[n]])
        /\ DeductLevel(o, rem, a, level) = f[N]
    BY <1>0 DEF IsLevelWalk
  <1>2. /\ g \in [0 .. N -> Nat] /\ g[0] = rem
        /\ \A n \in 1 .. N : g[n] = Deduct(o, g[n - 1], b[level[n]])
        /\ DeductLevel(o, rem, b, level) = g[N]
    BY <1>0 DEF IsLevelWalk
  <1>n. N \in Nat
    OBVIOUS
  <1>3. \A n \in 1 .. N : a[level[n]] = b[level[n]]
    BY DEF Alike
  <1> HIDE DEF N
  <1> DEFINE S == {n \in 0 .. N : f[n] = g[n]}
  <1>4. 0 \in S /\ 0 \in 0 .. N
    BY <1>1, <1>2, <1>n
  <1>5. ASSUME NEW n \in 0 .. N - 1, n \in S PROVE n + 1 \in S
    <2>1. n + 1 \in 1 .. N /\ n + 1 \in 0 .. N /\ (n + 1) - 1 = n
      BY <1>n
    <2> QED BY <1>1, <1>2, <1>3, <1>5, <2>1
  <1>6. \A n \in 0 .. N : n \in S
    <2> HIDE DEF S
    <2> QED BY <1>n, <1>4, <1>5, UpTo
  <1> QED BY <1>1, <1>2, <1>n, <1>6

\* rest of arena b is level of arena a without its head.
IsRest(a, level, b, rest) ==
  /\ Len(level) = Len(rest) + 1
  /\ \A n \in 1 .. Len(rest) : rest[n] = level[n + 1] /\ a[level[n + 1]] = b[rest[n]]

\* Deducting the head first and walking the rest of the level comes to the same.
LEMMA LevelTail ==
  ASSUME NEW o, NEW rem \in Nat, NEW a, Orders(a), NEW b, Orders(b),
         NEW level \in Seq(DOMAIN a), NEW rest \in Seq(DOMAIN b), IsRest(a, level, b, rest)
  PROVE  DeductLevel(o, rem, a, level)
           = DeductLevel(o, Deduct(o, rem, a[level[1]]), b, rest)
  <1> DEFINE N == Len(rest)
             first == Deduct(o, rem, a[level[1]])
  <1>0. N \in Nat /\ Len(level) = N + 1 /\ 1 \in 1 .. N + 1
    BY DEF IsRest
  <1>w. PICK f : IsLevelWalk(f, o, rem, a, level)
    BY LevelWalk, Zenon
  <1>1. /\ f \in [0 .. N + 1 -> Nat] /\ f[0] = rem
        /\ \A n \in 1 .. N + 1 : f[n] = Deduct(o, f[n - 1], a[level[n]])
        /\ DeductLevel(o, rem, a, level) = f[N + 1]
    <2> HIDE DEF N
    <2> QED BY <1>0, <1>w DEF IsLevelWalk
  <1>2. first = f[1] /\ first \in Nat
    <2>1. 1 - 1 = 0 /\ 1 \in 0 .. N + 1
      BY <1>0
    <2> QED BY <1>0, <1>1, <2>1
  <1>3. \A n \in 1 .. N : rest[n] = level[n + 1] /\ a[level[n + 1]] = b[rest[n]]
    BY DEF IsRest
  <1> HIDE DEF first
  <1>v. PICK g : IsLevelWalk(g, o, first, b, rest)
    BY <1>2, LevelWalk, Zenon
  <1>4. /\ g \in [0 .. N -> Nat] /\ g[0] = first
        /\ \A n \in 1 .. N : g[n] = Deduct(o, g[n - 1], b[rest[n]])
        /\ DeductLevel(o, first, b, rest) = g[N]
    BY <1>v DEF IsLevelWalk
  <1> HIDE DEF N
  <1> DEFINE S == {n \in 0 .. N : f[n + 1] = g[n]}
  <1>5. 0 \in S /\ 0 \in 0 .. N
    BY <1>0, <1>2, <1>4
  <1>6. ASSUME NEW n \in 0 .. N - 1, n \in S PROVE n + 1 \in S
    <2>1. /\ n + 1 \in 1 .. N /\ n + 1 \in 0 .. N /\ (n + 1) - 1 = n
          /\ (n + 1) + 1 \in 1 .. N + 1 /\ ((n + 1) + 1) - 1 = n + 1
      BY <1>0
    <2>2. f[(n + 1) + 1] = Deduct(o, f[n + 1], a[level[(n + 1) + 1]])
      BY <1>1, <2>1
    <2>3. g[n + 1] = Deduct(o, g[n], b[rest[n + 1]])
      BY <1>4, <2>1
    <2> QED BY <1>3, <1>6, <2>1, <2>2, <2>3
  <1>7. \A n \in 0 .. N : n \in S
    <2> HIDE DEF S
    <2> QED BY <1>0, <1>5, <1>6, UpTo, Zenon
  <1> QED BY <1>0, <1>1, <1>4, <1>7 DEF first

\* What LevelTail asks of its arguments, under one name.
AreLevelAndRest(rem, a, level, b, rest) ==
  /\ rem \in Nat /\ Orders(a) /\ Orders(b)
  /\ level \in Seq(DOMAIN a) /\ rest \in Seq(DOMAIN b) /\ IsRest(a, level, b, rest)

\* LevelTail, to be cited where the context is large.
LEMMA HeadThenRest ==
  ASSUME NEW o, NEW rem, NEW a, NEW level, NEW b, NEW rest,
         AreLevelAndRest(rem, a, level, b, rest)
  PROVE  DeductLevel(o, rem, a, level)
           = DeductLevel(o, Deduct(o, rem, a[level[1]]), b, rest)
  BY LevelTail DEF AreLevelAndRest

\* left[n] remains after the first n levels of the ladder.
IsLadderWalk(left, o, rem, a, ladder) ==
  /\ left \in [0 .. NumTicks -> Nat]
  /\ left[0] = rem
  /\ \A n \in 1 .. NumTicks : left[n] = ScanStep(o, left[n - 1], a, ladder, n)
  /\ ScanLeft(o, rem, a, ladder) = left[NumTicks]

\* The walk over the ladder, level by level.
LEMMA LadderWalk ==
  ASSUME NEW o, o.side \in Sides, NEW rem \in Nat, NEW a, Orders(a),
         NEW ladder \in [Idx -> Seq(DOMAIN a)]
  PROVE  \E left : IsLadderWalk(left, o, rem, a, ladder)
  <1> DEFINE Def(v, n) == ScanStep(o, v, a, ladder, n)
             N == NumTicks
             left == CHOOSE f : f = [n \in 0 .. N |-> IF n = 0 THEN rem ELSE Def(f[n - 1], n)]
  <1>1. ScanLeft(o, rem, a, ladder) = left[N]
    BY DEF ScanLeft
  <1>2. FiniteNatInductiveDefHypothesis(left, rem, Def, 0, N)
    BY DEF FiniteNatInductiveDefHypothesis
  <1>3. \A v \in Nat, n \in 1 .. N : Def(v, n) \in Nat
    <2> SUFFICES ASSUME NEW v \in Nat, NEW n \in 1 .. N PROVE Def(v, n) \in Nat
      OBVIOUS
    <2>1. ScanIdx(o.side, n) \in Idx
      BY LadderAssumption DEF ScanIdx, Idx
    <2>2. ladder[ScanIdx(o.side, n)] \in Seq(DOMAIN a)
      BY <2>1
    <2> QED BY <2>2, LevelFacts DEF ScanStep
  <1>4. N \in Nat
    BY LadderAssumption
  <1>5. \A v, n : Def(v, n) = ScanStep(o, v, a, ladder, n)
    OBVIOUS
  <1> HIDE DEF Def, left, N
  <1>6. FiniteNatInductiveDefConclusion(left, rem, Def, 0, N)
    BY <1>2, <1>4, FiniteNatInductiveDef
  <1>7. left = [n \in 0 .. N |-> IF n = 0 THEN rem ELSE Def(left[n - 1], n)]
    BY <1>6, Zenon DEF FiniteNatInductiveDefConclusion
  <1>8. left[0] = rem
    BY <1>4, <1>7
  <1>9. left \in [0 .. N -> Nat]
    <2> DEFINE S == {n \in 0 .. N : left[n] \in Nat}
    <2>1. 0 \in S /\ 0 \in 0 .. N
      BY <1>4, <1>8
    <2>2. ASSUME NEW n \in 0 .. N - 1, n \in S PROVE n + 1 \in S
      <3>1. n + 1 \in 1 .. N /\ n + 1 \in 0 .. N /\ (n + 1) - 1 = n /\ n + 1 # 0
        BY <1>4
      <3>2. left[n + 1] = Def(left[n], n + 1)
        BY <1>7, <3>1, Zenon
      <3> QED BY <1>3, <2>2, <3>1, <3>2, Zenon
    <2>3. \A n \in 0 .. N : n \in S
      <3> HIDE DEF S
      <3> QED BY <1>4, <2>1, <2>2, UpTo
    <2> QED BY <1>7, <2>3
  <1>10. ASSUME NEW n \in 1 .. N PROVE left[n] = ScanStep(o, left[n - 1], a, ladder, n)
    BY <1>4, <1>5, <1>7
  <1> QED BY <1>1, <1>8, <1>9, <1>10, Zenon DEF N, IsLadderWalk

\* The first s levels of a scan have nothing for the order.
Untouched(o, ladder, s) ==
  \A n \in 1 .. s : \/ ladder[ScanIdx(o.side, n)] = <<>>
                   \/ ~Crosses(o.side, o.price, o.order_type, ScanIdx(o.side, n))

\* What a scan is given.
IsScan(o, rem, a, ladder) ==
  o.side \in Sides /\ rem \in Nat /\ Orders(a) /\ ladder \in [Idx -> Seq(DOMAIN a)]

\* Levels that are empty or do not cross leave the quantity as it is.
LEMMA ScanUntouched ==
  ASSUME NEW o, NEW rem, NEW a, NEW ladder, IsScan(o, rem, a, ladder),
         NEW left, IsLadderWalk(left, o, rem, a, ladder),
         NEW s \in 0 .. NumTicks, Untouched(o, ladder, s)
  PROVE  left[s] = rem
  <1> USE DEF IsScan
  <1> DEFINE S == {n \in 0 .. s : left[n] = rem}
  <1>0. s \in Nat /\ s <= NumTicks /\ NumTicks \in Nat
    BY LadderAssumption
  <1>1. 0 \in S /\ 0 \in 0 .. s
    BY <1>0 DEF IsLadderWalk
  <1>2. ASSUME NEW n \in 0 .. s - 1, n \in S PROVE n + 1 \in S
    <2>1. /\ n + 1 \in 1 .. s /\ n + 1 \in 0 .. s /\ (n + 1) - 1 = n
          /\ n + 1 \in 1 .. NumTicks
      BY <1>0
    <2>2. left[n + 1] = ScanStep(o, rem, a, ladder, n + 1)
      BY <1>2, <2>1 DEF IsLadderWalk
    <2>3. ScanIdx(o.side, n + 1) \in Idx
      BY <1>0, <2>1 DEF ScanIdx, Idx
    <2>4. PICK level \in Seq(DOMAIN a) : level = ladder[ScanIdx(o.side, n + 1)]
      BY <2>3
    <2>5. level = <<>> => DeductLevel(o, rem, a, level) = rem
      BY LevelFacts, Zenon
    <2> QED BY <2>1, <2>2, <2>4, <2>5 DEF ScanStep, Untouched
  <1>3. \A n \in 0 .. s : n \in S
    <2> HIDE DEF S
    <2> QED BY <1>0, <1>1, <1>2, UpTo
  <1> QED BY <1>0, <1>3

\* Nothing is left of nothing.
LEMMA ScanOfNothing ==
  ASSUME NEW o, o.side \in Sides, NEW a, Orders(a), NEW ladder \in [Idx -> Seq(DOMAIN a)]
  PROVE  ScanLeft(o, 0, a, ladder) = 0
  <1>0. NumTicks \in Nat
    BY LadderAssumption
  <1>1. PICK left : IsLadderWalk(left, o, 0, a, ladder)
    BY LadderWalk
  <1> DEFINE S == {n \in 0 .. NumTicks : left[n] = 0}
  <1>2. 0 \in S /\ 0 \in 0 .. NumTicks
    BY <1>0, <1>1 DEF IsLadderWalk
  <1>3. ASSUME NEW n \in 0 .. NumTicks - 1, n \in S PROVE n + 1 \in S
    <2>1. n + 1 \in 1 .. NumTicks /\ n + 1 \in 0 .. NumTicks /\ (n + 1) - 1 = n
      BY <1>0
    <2>2. left[n + 1] = ScanStep(o, 0, a, ladder, n + 1)
      BY <1>1, <1>3, <2>1 DEF IsLadderWalk
    <2>3. ScanIdx(o.side, n + 1) \in Idx
      BY <1>0, <2>1 DEF ScanIdx, Idx
    <2>4. PICK level \in Seq(DOMAIN a) : level = ladder[ScanIdx(o.side, n + 1)]
      BY <2>3
    <2>5. DeductLevel(o, 0, a, level) = 0
      BY LevelFacts
    <2> QED BY <2>1, <2>2, <2>4, <2>5 DEF ScanStep
  <1>4. \A n \in 0 .. NumTicks : n \in S
    <2> HIDE DEF S
    <2> QED BY <1>0, <1>2, <1>3, UpTo
  <1> QED BY <1>0, <1>1, <1>4 DEF IsLadderWalk

\* Ladder and arena before and after the head of the best level, at step s of
\* the scan, is taken out.
HeadTaken(o, a, ladder, b, shrunk, s, idx) ==
  /\ s \in 1 .. NumTicks /\ idx \in Idx /\ idx = ScanIdx(o.side, s)
  /\ Crosses(o.side, o.price, o.order_type, idx)
  /\ Untouched(o, ladder, s - 1) /\ Untouched(o, shrunk, s - 1)
  /\ IsRest(a, ladder[idx], b, shrunk[idx])
  /\ \A j \in Idx \ {idx} : shrunk[j] = ladder[j] /\ Alike(a, b, ladder[j])

\* The scan may deduct the head of the best level first: what is left is what
\* the scan of the book without that order leaves.
LEMMA ScanHead ==
  ASSUME NEW o, NEW rem, NEW a, NEW b, NEW ladder, NEW shrunk, NEW s, NEW idx,
         IsScan(o, rem, a, ladder), IsScan(o, 0, b, shrunk),
         HeadTaken(o, a, ladder, b, shrunk, s, idx)
  PROVE  ScanLeft(o, rem, a, ladder)
           = ScanLeft(o, Deduct(o, rem, a[ladder[idx][1]]), b, shrunk)
  <1> SUFFICES ASSUME o.side \in Sides, rem \in Nat, Orders(a), Orders(b),
                      ladder \in [Idx -> Seq(DOMAIN a)], shrunk \in [Idx -> Seq(DOMAIN b)],
                      s \in 1 .. NumTicks, idx \in Idx, idx = ScanIdx(o.side, s),
                      Crosses(o.side, o.price, o.order_type, idx),
                      Untouched(o, ladder, s - 1), Untouched(o, shrunk, s - 1),
                      IsRest(a, ladder[idx], b, shrunk[idx]),
                      \A j \in Idx \ {idx} : shrunk[j] = ladder[j] /\ Alike(a, b, ladder[j])
               PROVE  ScanLeft(o, rem, a, ladder)
                        = ScanLeft(o, Deduct(o, rem, a[ladder[idx][1]]), b, shrunk)
    BY DEF IsScan, HeadTaken
  <1> DEFINE first == Deduct(o, rem, a[ladder[idx][1]])
  <1>0. NumTicks \in Nat /\ s \in Nat /\ s - 1 \in 0 .. NumTicks /\ s \in 0 .. NumTicks
    BY LadderAssumption
  <1>1. PICK level \in Seq(DOMAIN a) : level = ladder[idx]
    OBVIOUS
  <1>2. PICK rest \in Seq(DOMAIN b) : rest = shrunk[idx]
    OBVIOUS
  <1>3. first \in Nat
    <2>1. 1 \in 1 .. Len(level)
      BY <1>1, <1>2 DEF IsRest
    <2>2. a[level[1]].qty \in Nat
      BY <2>1 DEF Orders
    <2> QED BY <1>1, <2>2, DeductType
  <1>4. DeductLevel(o, rem, a, level) = DeductLevel(o, first, b, rest)
    <2>1. AreLevelAndRest(rem, a, level, b, rest)
      BY <1>1, <1>2 DEF AreLevelAndRest
    <2>2. DeductLevel(o, rem, a, level)
            = DeductLevel(o, Deduct(o, rem, a[level[1]]), b, rest)
      BY <2>1, HeadThenRest
    <2> QED BY <1>1, <2>2
  <1> HIDE DEF first
  <1>5. PICK f : IsLadderWalk(f, o, rem, a, ladder)
    BY LadderWalk
  <1>6. PICK g : IsLadderWalk(g, o, first, b, shrunk)
    BY <1>3, LadderWalk, Zenon
  <1>7. f[s - 1] = rem
    <2>1. IsScan(o, rem, a, ladder)
      BY DEF IsScan
    <2> QED BY <1>0, <1>5, <2>1, ScanUntouched
  <1>8. g[s - 1] = first
    <2>1. IsScan(o, first, b, shrunk)
      BY <1>3 DEF IsScan
    <2> QED BY <1>0, <1>6, <2>1, ScanUntouched
  <1>9. f[s] = g[s]
    <2>1. f[s] = DeductLevel(o, rem, a, level)
      BY <1>1, <1>5, <1>7 DEF IsLadderWalk, ScanStep
    <2>2. g[s] = DeductLevel(o, first, b, rest)
      BY <1>2, <1>6, <1>8 DEF IsLadderWalk, ScanStep
    <2> QED BY <1>4, <2>1, <2>2
  <1> DEFINE S == {n \in s .. NumTicks : f[n] = g[n]}
  <1>10. s \in S
    <2>1. s \in s .. NumTicks
      BY <1>0
    <2> QED BY <1>9, <2>1
  <1>11. ASSUME NEW n \in s .. NumTicks - 1, n \in S PROVE n + 1 \in S
    <2>1. /\ n + 1 \in s .. NumTicks /\ n + 1 \in 1 .. NumTicks /\ (n + 1) - 1 = n
          /\ n \in 0 .. NumTicks /\ n + 1 # s
      BY <1>0
    <2>2. ScanIdx(o.side, n + 1) \in Idx \ {idx}
      BY <1>0, <2>1 DEF ScanIdx, Idx
    <2>3. PICK j \in Idx \ {idx} : j = ScanIdx(o.side, n + 1)
      BY <2>2
    <2>4. PICK l \in Seq(DOMAIN a) : l = ladder[j]
      OBVIOUS
    <2>5. l = shrunk[j] /\ Alike(a, b, l)
      BY <2>4
    <2>6. PICK v \in Nat : v = f[n] /\ v = g[n]
      BY <1>5, <1>11, <2>1, Zenon DEF IsLadderWalk
    <2>7. DeductLevel(o, v, a, l) = DeductLevel(o, v, b, l)
      BY <2>5, LevelSame
    <2>8. f[n + 1] = ScanStep(o, v, a, ladder, n + 1)
      <3>1. f[n + 1] = ScanStep(o, f[(n + 1) - 1], a, ladder, n + 1)
        BY <1>5, <2>1 DEF IsLadderWalk
      <3> QED BY <2>1, <2>6, <3>1, Zenon
    <2>9. g[n + 1] = ScanStep(o, v, b, shrunk, n + 1)
      BY <1>6, <2>1, <2>6 DEF IsLadderWalk
    <2> QED BY <2>1, <2>3, <2>4, <2>5, <2>7, <2>8, <2>9 DEF ScanStep
  <1>12. \A n \in s .. NumTicks : n \in S
    <2> HIDE DEF S
    <2> QED BY <1>0, <1>10, <1>11, UpTo, Zenon
  <1>13. f[NumTicks] = g[NumTicks]
    <2>1. NumTicks \in s .. NumTicks
      BY <1>0
    <2>2. NumTicks \in S
      BY <1>12, <2>1
    <2> QED BY <2>2
  <1> QED BY <1>5, <1>6, <1>13 DEF IsLadderWalk, first
=============================================================================
