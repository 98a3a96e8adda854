----------------------------- MODULE PartsProofs -----------------------------
(***************************************************************************)
(* Proofs about PositionLedger, for every price scale and any fills, about *)
(* Failover, for every number of nodes and of terms, and about Seqlock,    *)
(* for every set of readers and any number of updates.                     *)
(***************************************************************************)
EXTENDS Failover, Seqlock, PositionLedger, TLAPS

(***************************************************************************)
(* PositionLedger.  A division of apply_fill loses less than one divisor,  *)
(* and the rest of it is exact: the value of a position moves by what the  *)
(* fill costs and by that remainder.                                       *)
(***************************************************************************)

\* A truncating division is off by less than one divisor.
LEMMA QuotBound ==
  ASSUME NEW a \in Int, NEW b \in Nat \ {0}
  PROVE  \E rem \in Int : /\ quot(a, b) \in Int /\ b * quot(a, b) = a - rem
                          /\ -(b - 1) <= rem /\ rem <= b - 1
  <1>1. ASSUME NEW x \in Int
        PROVE  x % b \in 0 .. b - 1 /\ x \div b \in Int /\ x = b * (x \div b) + (x % b)
    OBVIOUS
  <1>2. CASE a < 0
    <2>1. -a \in Int /\ quot(a, b) = -((-a) \div b)
      BY <1>2 DEF quot
    <2>2. PICK q \in Int, r \in 0 .. b - 1 : (-a) \div b = q /\ -a = b * q + r
      BY <1>1, <2>1, Zenon
    <2>3. quot(a, b) = -q /\ b * (-q) = a - (-r) /\ -r \in Int /\ -(b - 1) <= -r /\ -r <= b - 1
      BY <2>1, <2>2
    <2> QED BY <2>3
  <1>3. CASE a >= 0
    <2>1. quot(a, b) = a \div b
      BY <1>3 DEF quot
    <2>2. PICK q \in Int, r \in 0 .. b - 1 : a \div b = q /\ a = b * q + r
      BY <1>1, Zenon
    <2>3. quot(a, b) = q /\ b * q = a - r /\ r \in Int /\ -(b - 1) <= r /\ r <= b - 1
      BY <2>1, <2>2
    <2> QED BY <2>3
  <1> QED BY <1>2, <1>3

\* What closing z of a position of w entered at y leaves, at the price x.
LEMMA Reducing ==
  ASSUME NEW x \in Int, NEW y \in Int, NEW z \in Int, NEW w \in Int
  PROVE  (x - y) * (-z) - (w + z) * y = -(w * y) - z * x
  OBVIOUS

Positions == [net_qty : Int, avg_entry_price : Int, realised_pnl : Int]

\* What a position is worth at cost, in price ticks times quantity ticks.
Value(p) == PriceScale * p.realised_pnl - p.net_qty * p.avg_entry_price

\* The most that the division of a fill taking p to f can lose.
Rounding(p, side, f) ==
  IF p.net_qty = 0 THEN 0
  ELSE IF (p.net_qty > 0) = (side = "Buy") THEN abs(f.net_qty) - 1 ELSE PriceScale - 1

\* A fill moves the value by what it costs and by a remainder of its division.
LEMMA FillValue ==
  ASSUME NEW p \in Positions, NEW side \in {"Buy", "Sell"}, NEW price \in Int,
         NEW qty \in Nat \ {0}
  PROVE  \E rem \in Int :
           /\ apply_fill(p, side, price, qty) \in Positions
           /\ Value(apply_fill(p, side, price, qty)) = Value(p) - Signed(side, qty) * price + rem
           /\ -Rounding(p, side, apply_fill(p, side, price, qty)) <= rem
           /\ rem <= Rounding(p, side, apply_fill(p, side, price, qty))
  <1> DEFINE s == Signed(side, qty)
             n == p.net_qty
             a == p.avg_entry_price
             r == p.realised_pnl
             f == apply_fill(p, side, price, qty)
  <1>0. /\ s \in Int /\ n \in Int /\ a \in Int /\ r \in Int /\ PriceScale \in Nat \ {0}
        /\ p = [net_qty |-> n, avg_entry_price |-> a, realised_pnl |-> r]
        /\ (s > 0) = (side = "Buy") /\ s # 0
        /\ (s > 0 => s = qty) /\ (s < 0 => s = -qty)
    BY FillAssumption DEF Positions, Signed
  <1>1. CASE n = 0
    <2>1. f = [p EXCEPT !.avg_entry_price = price, !.net_qty = n + s]
      BY <1>1 DEF apply_fill
    <2>2. f = [net_qty |-> n + s, avg_entry_price |-> price, realised_pnl |-> r]
      BY <1>0, <2>1
    <2>3. f \in Positions /\ Value(f) = PriceScale * r - s * price /\ Value(p) = PriceScale * r
      BY <1>0, <1>1, <2>2 DEF Positions, Value
    <2> HIDE DEF s, r, f, n, a
    <2>4. PriceScale * r \in Int /\ s * price \in Int
      BY <1>0
    <2>5. Value(f) = Value(p) - s * price + 0
      BY <2>3, <2>4
    <2>6. -Rounding(p, side, f) <= 0 /\ 0 <= Rounding(p, side, f)
      BY <1>1 DEF Rounding, n
    <2> QED BY <2>3, <2>5, <2>6 DEF f, s
  <1>2. CASE n # 0 /\ (n > 0) = (s > 0)
    <2> DEFINE m   == abs(n + s)
               sum == a * abs(n) + price * qty
               avg == quot(sum, m)
    <2>1. /\ f = [p EXCEPT !.avg_entry_price = avg, !.net_qty = n + s]
      BY <1>2 DEF apply_fill
    <2>2. f = [net_qty |-> n + s, avg_entry_price |-> avg, realised_pnl |-> r]
      BY <1>0, <2>1
    <2>3. m \in Nat \ {0} /\ sum \in Int
      BY <1>0, <1>2 DEF abs
    <2> HIDE DEF m, sum
    <2>4. PICK rem \in Int : /\ avg \in Int /\ m * avg = sum - rem
                             /\ -(m - 1) <= rem /\ rem <= m - 1
      BY <2>3, QuotBound
    <2> USE DEF m, sum
    <2>5. /\ n > 0 => m = n + s /\ abs(n) = n /\ s = qty
          /\ n < 0 => m = -(n + s) /\ abs(n) = -n /\ s = -qty
      BY <1>0, <1>2 DEF abs
    <2>r. Rounding(p, side, f) = m - 1
      BY <1>0, <1>2, <2>2 DEF Rounding
    <2> HIDE DEF m, sum, avg, f, s, n, a, r
    <2>6. f \in Positions /\ Value(f) = PriceScale * r - (n + s) * avg /\ f.net_qty = n + s
      BY <1>0, <2>2, <2>4 DEF Positions, Value
    <2>7. Value(p) = PriceScale * r - n * a
      BY DEF Value, n, a, r
    <2>8. CASE n > 0
      <3>1. (n + s) * avg = a * n + price * s - rem
        BY <1>0, <2>4, <2>5, <2>8 DEF sum
      <3>2. Value(f) = Value(p) - s * price + rem
        BY <1>0, <2>3, <2>4, <2>6, <2>7, <3>1
      <3> QED BY <2>r, <2>4, <2>6, <3>2 DEF f, s
    <2>9. CASE n < 0
      <3>1. (n + s) * avg = -(m * avg)
        BY <1>0, <2>4, <2>5, <2>9
      <3>2. (n + s) * avg = a * n + price * s + rem
        BY <1>0, <2>4, <2>5, <2>9, <3>1 DEF sum
      <3>3. Value(f) = Value(p) - s * price + (-rem)
        BY <1>0, <2>3, <2>4, <2>6, <2>7, <3>2
      <3>4. -rem \in Int /\ -(m - 1) <= -rem /\ -rem <= m - 1
        BY <2>3, <2>4
      <3> QED BY <2>r, <2>6, <3>3, <3>4 DEF f, s
    <2>10. n > 0 \/ n < 0
      BY <1>0, <1>2
    <2> QED BY <2>8, <2>9, <2>10, Zenon
  <1>3. CASE n # 0 /\ (n > 0) # (s > 0)
    <2> DEFINE close == smaller(qty, abs(n))
               won   == (price - a) * direction(p) * close
               pnl   == quot(won, PriceScale)
               avg   == AvgAfterClose(p, n + s, price)
    <2>1. f = [p EXCEPT !.realised_pnl = @ + pnl, !.net_qty = n + s, !.avg_entry_price = avg]
      BY <1>3 DEF apply_fill
    <2>2. f = [net_qty |-> n + s, avg_entry_price |-> avg, realised_pnl |-> r + pnl]
      BY <1>0, <2>1
    <2>3. /\ close = IF qty <= abs(n) THEN qty ELSE abs(n)
          /\ close \in Nat /\ direction(p) \in {1, -1} /\ won \in Int
          /\ direction(p) = (IF n > 0 THEN 1 ELSE -1)
      <3>1. direction(p) = (IF n > 0 THEN 1 ELSE -1)
        BY DEF direction
      <3>2. abs(n) \in Nat
        BY <1>0 DEF abs
      <3>3. close = (IF qty <= abs(n) THEN qty ELSE abs(n)) /\ close \in Nat
        BY <3>2 DEF smaller
      <3> HIDE DEF close
      <3> QED BY <1>0, <3>1, <3>3
    <2>4. PICK rem \in Int : /\ pnl \in Int /\ PriceScale * pnl = won - rem
                             /\ -(PriceScale - 1) <= rem /\ rem <= PriceScale - 1
      BY <1>0, <2>3, QuotBound
    <2>5. avg = IF n + s = 0 THEN 0 ELSE IF (n + s > 0) # (n > 0) THEN price ELSE a
      BY DEF AvgAfterClose
    <2>6. avg \in Int
      BY <1>0, <2>5
    <2>7. won - (n + s) * avg = -(n * a) - s * price
      <3>1. CASE (n + s) = 0 \/ (n + s > 0) # (n > 0)
        <4>1. direction(p) * close = n
          BY <1>0, <1>3, <2>3, <3>1 DEF abs
        <4>2. won = (price - a) * n
          <5> HIDE DEF close, s, a, n
          <5>1. CASE direction(p) = 1
            BY <1>0, <2>3, <4>1, <5>1
          <5>2. CASE direction(p) = -1
            BY <1>0, <2>3, <4>1, <5>2
          <5> QED BY <2>3, <5>1, <5>2
        <4>3. CASE n + s = 0
          <5>1. avg = 0 /\ s = -n
            BY <1>0, <2>5, <4>3
          <5> HIDE DEF won, avg, s, n, a
          <5> QED BY <1>0, <2>6, <4>2, <5>1
        <4>4. CASE n + s # 0
          <5>1. avg = price
            BY <2>5, <3>1, <4>4
          <5> QED BY <1>0, <4>2, <5>1
        <4> QED BY <4>3, <4>4
      <3>2. CASE (n + s) # 0 /\ (n + s > 0) = (n > 0)
        <4>1. direction(p) * close = -s
          BY <1>0, <1>3, <2>3, <3>2 DEF abs
        <4>2. won = (price - a) * (-s)
          <5> HIDE DEF close, s, a, n
          <5>1. CASE direction(p) = 1
            BY <1>0, <2>3, <4>1, <5>1
          <5>2. CASE direction(p) = -1
            BY <1>0, <2>3, <4>1, <5>2
          <5> QED BY <2>3, <5>1, <5>2
        <4>3. avg = a
          BY <2>5, <3>2
        <4> HIDE DEF won, avg, s, n, a
        <4> QED BY <1>0, <4>2, <4>3, Reducing
      <3> QED BY <3>1, <3>2
    <2>8. /\ f \in Positions
          /\ Value(f) = PriceScale * (r + pnl) - (n + s) * avg
          /\ Value(p) = PriceScale * r - n * a
      BY <1>0, <2>2, <2>4, <2>6 DEF Positions, Value
    <2>r. Rounding(p, side, f) = PriceScale - 1
      BY <1>0, <1>3 DEF Rounding
    <2> HIDE DEF close, won, pnl, avg, f, s, n, a, r
    <2>9. PriceScale * (r + pnl) = PriceScale * r + won - rem
      BY <1>0, <2>3, <2>4
    <2>10. Value(f) = Value(p) - s * price + (-rem)
      BY <1>0, <2>3, <2>4, <2>6, <2>7, <2>8, <2>9
    <2>11. -rem \in Int /\ -(PriceScale - 1) <= -rem /\ -rem <= PriceScale - 1
      BY <1>0, <2>4
    <2> QED BY <2>r, <2>8, <2>10, <2>11 DEF f, s
  <1>4. n = 0 \/ (n # 0 /\ (n > 0) = (s > 0)) \/ (n # 0 /\ (n > 0) # (s > 0))
    OBVIOUS
  <1> QED BY <1>1, <1>2, <1>3, <1>4, Zenon

\* The drift so far is within what the divisions so far can have lost.
LedgerInv ==
  /\ position \in Positions /\ cash \in Int /\ lost \in Nat
  /\ -lost <= Value(position) - cash /\ Value(position) - cash <= lost

\* Realised PnL and entry value never drift from the cash ledger by more than
\* what the divisions of apply_fill (position.rs) truncate, over any mix of
\* opening, increasing, reducing, closing and flipping fills.
THEOREM EquityAlwaysMatchesCash == LedgerSpec => []EquityMatchesCash
  <1>1. LedgerInit => LedgerInv
    BY FillAssumption DEF LedgerInit, LedgerInv, FlatPosition, Positions, Value
  <1>2. LedgerInv /\ [LedgerNext]_ledger_vars => LedgerInv'
    <2> SUFFICES ASSUME LedgerInv, [LedgerNext]_ledger_vars PROVE LedgerInv'
      OBVIOUS
    <2>1. CASE UNCHANGED ledger_vars
      BY <2>1 DEF LedgerInv, ledger_vars, Value
    <2>2. ASSUME NEW side \in {"Buy", "Sell"}, NEW price \in FillPrices, NEW qty \in FillQtys,
                 Fill(side, price, qty)
          PROVE  LedgerInv'
      <3>1. price \in Int /\ qty \in Nat \ {0} /\ position \in Positions /\ cash \in Int
            /\ lost \in Nat /\ Signed(side, qty) \in Int /\ PriceScale \in Nat \ {0}
        BY FillAssumption DEF LedgerInv, Signed
      <3> DEFINE bound == Rounding(position, side, position')
      <3>2. position' = apply_fill(position, side, price, qty)
            /\ cash' = cash - Signed(side, qty) * price
        BY <2>2 DEF Fill
      <3>3. PICK rem \in Int :
              /\ position' \in Positions
              /\ Value(position') = Value(position) - Signed(side, qty) * price + rem
              /\ -bound <= rem /\ rem <= bound
        BY <3>1, <3>2, FillValue
      <3>4. lost' = lost + bound /\ bound \in Int
        <4>1. position.net_qty \in Int /\ position'.net_qty \in Int
          BY <3>1, <3>3 DEF Positions
        <4> QED BY <2>2, <3>1, <4>1 DEF Fill, Increases, Rounding, abs
      <3>5. Value(position) \in Int /\ Value(position') \in Int
        BY <3>1, <3>3 DEF Positions, Value
      <3>6. Value(position)' = Value(position')
        BY DEF Value
      <3> HIDE DEF bound
      <3>7. bound >= 0
        BY <3>3, <3>4
      <3>8. Signed(side, qty) * price \in Int
        BY <3>1
      <3> QED BY <3>1, <3>2, <3>3, <3>4, <3>5, <3>6, <3>7, <3>8 DEF LedgerInv
    <2> QED BY <2>1, <2>2 DEF LedgerNext
  <1>3. LedgerInv => EquityMatchesCash
    <2> SUFFICES ASSUME LedgerInv PROVE EquityMatchesCash
      OBVIOUS
    <2>1. Value(position) \in Int /\ cash \in Int /\ lost \in Nat
      BY FillAssumption DEF LedgerInv, Positions, Value
    <2> QED BY <2>1 DEF LedgerInv, EquityMatchesCash, abs, Value
  <1> QED BY <1>1, <1>2, <1>3, PTL DEF LedgerSpec

(***************************************************************************)
(* Failover.                                                               *)
(***************************************************************************)

\* Types are kept by every step.
LEMMA InitTypeOK == Init => TypeOK
  BY DEF Init, TypeOK, Labels

\* Every step of an election or of a process keeps the types.
LEMMA NextTypeOK ==
  ASSUME TypeOK, [Next]_vars
  PROVE  TypeOK'
  <1> USE DEF TypeOK, Labels, election, handle
  <1>1. ASSUME NEW n \in Nodes, Elect(n) PROVE TypeOK'
    <2>1. CASE TryLock(n)
      BY <2>1 DEF TryLock
    <2>2. CASE GiveUp(n)
      BY <2>2 DEF GiveUp
    <2>3. CASE WriteTerm(n)
      BY <2>3 DEF WriteTerm
    <2>4. CASE StoreTerm(n)
      BY <2>4 DEF StoreTerm
    <2>5. CASE StoreRole(n)
      BY <2>5 DEF StoreRole
    <2>6. CASE Release(n)
      BY <2>6 DEF Release
    <2> QED BY <1>1, <2>1, <2>2, <2>3, <2>4, <2>5, <2>6 DEF Elect
  <1>2. ASSUME NEW n \in Nodes, DropController(n) PROVE TypeOK'
    BY <1>2 DEF DropController
  <1>3. ASSUME NEW n \in Nodes, CheckRole(n) \/ Dispatched(n) PROVE TypeOK'
    BY <1>3, Zenon DEF CheckRole, Dispatched
  <1>4. ASSUME NEW n \in Nodes, Crash(n) PROVE TypeOK'
    BY <1>4 DEF Crash
  <1>5. ASSUME NEW n \in Nodes, Restart(n) PROVE TypeOK'
    BY <1>5 DEF Restart
  <1>6. CASE UNCHANGED vars
    BY <1>6 DEF vars
  <1> QED BY <1>1, <1>2, <1>3, <1>4, <1>5, <1>6 DEF Next

\* Only WriteTerm hands out a term, and it is larger than all before it.
LEMMA NextTerms ==
  ASSUME TypeOK, TermsDistinct, [Next]_vars
  PROVE  /\ TermsDistinct'
         /\ disk_term' >= disk_term
         /\ \A n \in Nodes : acquired'[n] > acquired[n] =>
              \A m \in Nodes : acquired[m] < acquired'[n]
  <1> USE DEF TypeOK, TermsDistinct, election, handle
  <1>1. ASSUME NEW n \in Nodes, WriteTerm(n)
        PROVE  /\ TermsDistinct'
               /\ disk_term' >= disk_term
               /\ \A k \in Nodes : acquired'[k] > acquired[k] =>
                    \A m \in Nodes : acquired[m] < acquired'[k]
    <2>1. /\ acquired' = [acquired EXCEPT ![n] = disk_term + 1]
          /\ disk_term' = disk_term + 1 /\ term' = term
      BY <1>1 DEF WriteTerm
    <2> QED BY <2>1
  <1>2. ASSUME NEW n \in Nodes, StoreTerm(n)
        PROVE  TermsDistinct' /\ UNCHANGED <<disk_term, acquired>>
    BY <1>2 DEF StoreTerm
  <1>3. ASSUME NEW n \in Nodes, Restart(n)
        PROVE  /\ TermsDistinct' /\ UNCHANGED disk_term
               /\ \A k \in Nodes : acquired'[k] <= acquired[k]
    BY <1>3 DEF Restart
  <1>4. CASE UNCHANGED <<disk_term, acquired, term>>
    BY <1>4
  <1>5. \/ \E n \in Nodes : WriteTerm(n) \/ StoreTerm(n) \/ Restart(n)
        \/ UNCHANGED <<disk_term, acquired, term>>
    BY DEF Next, Elect, TryLock, GiveUp, StoreRole, Release, DropController, CheckRole,
           Dispatched, Crash, vars
  <1>6. ASSUME NEW n \in Nodes, Restart(n)
        PROVE  \A k \in Nodes : ~(acquired'[k] > acquired[k])
    BY <1>6, <1>3, NextTypeOK
  <1> QED BY <1>1, <1>2, <1>3, <1>4, <1>5, <1>6

\* No two processes ever hold the same term: write_term persists an
\* incremented term under the lock before acquire() returns it.
THEOREM TermsAlwaysDistinct == Spec => []TermsDistinct
  <1>1. Init => TypeOK /\ TermsDistinct
    BY InitTypeOK DEF Init, TermsDistinct
  <1>2. TypeOK /\ TermsDistinct /\ [Next]_vars => TypeOK' /\ TermsDistinct'
    BY NextTypeOK, NextTerms
  <1> QED BY <1>1, <1>2, PTL DEF Spec

\* The fencing token only moves forward.
THEOREM TermsAlwaysAdvance == Spec => TermsAdvance
  <1>1. Init => TypeOK /\ TermsDistinct
    BY InitTypeOK DEF Init, TermsDistinct
  <1>2. TypeOK /\ TermsDistinct /\ [Next]_vars => TypeOK' /\ TermsDistinct'
    BY NextTypeOK, NextTerms
  <1>3. TypeOK /\ TermsDistinct /\ [Next]_vars
          => [ /\ disk_term' >= disk_term
               /\ \A n \in Nodes : acquired'[n] > acquired[n] =>
                    \A m \in Nodes : acquired[m] < acquired'[n] ]_vars
    BY NextTerms
  <1> QED BY <1>1, <1>2, <1>3, PTL DEF Spec, TermsAdvance

\* A process past the lock still holds it, and a leader is past it or stopped.
LEMMA NextLockBacksLeader ==
  ASSUME TypeOK, LockBacksLeader, [Next]_vars
  PROVE  LockBacksLeader'
  <1> USE DEF TypeOK, LockBacksLeader, Leads, At, election, handle
  <1>1. ASSUME NEW n \in Nodes, Elect(n) PROVE LockBacksLeader'
    <2>1. CASE TryLock(n)
      BY <2>1, FailoverAssumption DEF TryLock
    <2>2. CASE GiveUp(n)
      BY <2>2 DEF GiveUp
    <2>3. CASE WriteTerm(n)
      BY <2>3 DEF WriteTerm
    <2>4. CASE StoreTerm(n)
      BY <2>4 DEF StoreTerm
    <2>5. CASE StoreRole(n)
      BY <2>5 DEF StoreRole
    <2>6. CASE Release(n)
      BY <2>6 DEF Release
    <2> QED BY <1>1, <2>1, <2>2, <2>3, <2>4, <2>5, <2>6 DEF Elect
  <1>2. ASSUME NEW n \in Nodes, DropController(n) PROVE LockBacksLeader'
    BY <1>2 DEF DropController
  <1>3. ASSUME NEW n \in Nodes, CheckRole(n) \/ Dispatched(n) PROVE LockBacksLeader'
    BY <1>3 DEF CheckRole, Dispatched
  <1>4. ASSUME NEW n \in Nodes, Crash(n) PROVE LockBacksLeader'
    BY <1>4 DEF Crash
  <1>5. ASSUME NEW n \in Nodes, Restart(n) PROVE LockBacksLeader'
    BY <1>5 DEF Restart
  <1>6. CASE UNCHANGED vars
    BY <1>6 DEF vars
  <1> QED BY <1>1, <1>2, <1>3, <1>4, <1>5, <1>6 DEF Next

\* Among the processes that have not dropped their controller at most one
\* dispatches at any time.  (OneLeader, without that restriction, does not hold:
\* Drop releases the lock and leaves the role.)
THEOREM AlwaysOneIncumbent == Spec => []OneIncumbent
  <1>1. Init => TypeOK /\ LockBacksLeader
    BY InitTypeOK DEF Init, LockBacksLeader, Leads, At
  <1>2. TypeOK /\ LockBacksLeader /\ [Next]_vars => TypeOK' /\ LockBacksLeader'
    BY NextTypeOK, NextLockBacksLeader
  <1>3. LockBacksLeader => OneIncumbent
    BY DEF LockBacksLeader, OneIncumbent, Leads, At
  <1> QED BY <1>1, <1>2, <1>3, PTL DEF Spec

\* What LeaderHasTerm needs to be inductive: the term is not 0 from write_term
\* on, and is in the handle from set_term on, before the role is.
TermInPlace ==
  \A n \in Nodes :
    /\ pc[n] = "persisted" => acquired[n] > 0
    /\ pc[n] \in {"term_stored", "parked"} => term[n] > 0

\* The term is in the handle before the role is, and stays there.
LEMMA NextLeaderHasTerm ==
  ASSUME TypeOK, LockBacksLeader, TermInPlace, LeaderHasTerm, [Next]_vars
  PROVE  TermInPlace' /\ LeaderHasTerm'
  <1> USE DEF TypeOK, TermInPlace, LeaderHasTerm, At, election, handle
  <1>1. ASSUME NEW n \in Nodes, Elect(n) PROVE TermInPlace' /\ LeaderHasTerm'
    <2>1. CASE TryLock(n)
      BY <2>1 DEF TryLock
    <2>2. CASE GiveUp(n)
      BY <2>2 DEF GiveUp
    <2>3. CASE WriteTerm(n)
      BY <2>3 DEF WriteTerm
    <2>4. CASE StoreTerm(n)
      BY <2>4 DEF StoreTerm
    <2>5. CASE StoreRole(n)
      BY <2>5 DEF StoreRole
    <2>6. CASE Release(n)
      BY <2>6 DEF Release
    <2> QED BY <1>1, <2>1, <2>2, <2>3, <2>4, <2>5, <2>6 DEF Elect
  <1>2. ASSUME NEW n \in Nodes, DropController(n) PROVE TermInPlace' /\ LeaderHasTerm'
    BY <1>2 DEF DropController
  <1>3. ASSUME NEW n \in Nodes, CheckRole(n) \/ Dispatched(n)
        PROVE  TermInPlace' /\ LeaderHasTerm'
    BY <1>3 DEF CheckRole, Dispatched
  <1>4. ASSUME NEW n \in Nodes, Crash(n) PROVE TermInPlace' /\ LeaderHasTerm'
    BY <1>4 DEF Crash
  <1>5. ASSUME NEW n \in Nodes, Restart(n) PROVE TermInPlace' /\ LeaderHasTerm'
    BY <1>5 DEF Restart, LockBacksLeader
  <1>6. CASE UNCHANGED vars
    BY <1>6 DEF vars
  <1> QED BY <1>1, <1>2, <1>3, <1>4, <1>5, <1>6 DEF Next

\* Lock, terms and roles stay together wherever a crash, a restart or a dropped
\* controller interrupts the election; in particular a process that may dispatch
\* has its own term in the handle, because set_term comes before set_role.
THEOREM ElectionAlwaysSound == Spec => []ElectionInv
  <1>1. Init => ElectionInv /\ TermInPlace
    BY InitTypeOK
    DEF Init, ElectionInv, TermsDistinct, LeaderHasTerm, LockBacksLeader, Leads, At,
        TermInPlace
  <1>2. ElectionInv /\ TermInPlace /\ [Next]_vars => ElectionInv' /\ TermInPlace'
    BY NextTypeOK, NextTerms, NextLockBacksLeader, NextLeaderHasTerm DEF ElectionInv
  <1> QED BY <1>1, <1>2, PTL DEF Spec

(***************************************************************************)
(* The seqlock.                                                            *)
(***************************************************************************)

States == [balance : Nat, frozen : BOOLEAN]

SeqlockTypeOK ==
  /\ s_seq \in Nat /\ s_cell \in States
  /\ w_pc \in {"idle", "balance", "frozen", "end"} /\ w_new \in States
  /\ s_pc \in [Readers -> {"idle", "seq1", "balance", "frozen", "seq2", "returned"}]
  /\ s_seq1 \in [Readers -> Nat] /\ s_copy \in [Readers -> States]
  /\ published \in Seq(States) /\ Len(published) \in Nat \ {0}
  /\ s_from \in [Readers -> Nat]

\* The sequence word counts the halves of the updates, and the fields are the
\* state last published unless an update is in progress.
WriterInv ==
  /\ w_pc = "idle" => /\ s_seq = 2 * Len(published) - 2
                      /\ s_cell = published[Len(published)]
  /\ w_pc # "idle" => s_seq = 2 * Len(published) - 1
  /\ w_pc \in {"frozen", "end"} => s_cell.balance = w_new.balance
  /\ w_pc = "end" => s_cell = w_new

\* As long as the sequence word is the one a reader loaded, no update has begun
\* since, and what the reader has copied so far is what the fields hold.
ReaderInv(r) ==
  /\ s_from[r] \in 1 .. Len(published)
  /\ s_pc[r] \in {"balance", "frozen", "seq2"} =>
       s_seq1[r] <= s_seq /\ (s_seq1[r] = s_seq => w_pc = "idle")
  /\ s_pc[r] \in {"frozen", "seq2"} /\ s_seq1[r] = s_seq => s_copy[r].balance = s_cell.balance
  /\ s_pc[r] = "seq2" /\ s_seq1[r] = s_seq => s_copy[r].frozen = s_cell.frozen
  /\ s_pc[r] = "returned" => \E i \in s_from[r] .. Len(published) : s_copy[r] = published[i]

SeqlockInv == SeqlockTypeOK /\ WriterInv /\ \A r \in Readers : ReaderInv(r)

\* SeqlockInv holds before the first update.
LEMMA InitSeqlockInv == SeqlockInit => SeqlockInv
  BY DEF SeqlockInit, SeqlockInv, SeqlockTypeOK, WriterInv, ReaderInv, States, Fresh

\* The four steps of update.
LEMMA UpdateInv ==
  ASSUME SeqlockInv, UpdateBegin \/ StoreBalance \/ StoreFrozen \/ UpdateEnd
  PROVE  SeqlockInv'
  <1> USE DEF SeqlockInv
  <1>1. CASE UpdateBegin
    <2>1. w_new' \in States
      <3>1. s_cell \in States /\ Len(published) \in Nat
        BY DEF SeqlockTypeOK
      <3>2. /\ [s_cell EXCEPT !.balance = Len(published)] \in States
            /\ [s_cell EXCEPT !.frozen = ~@] \in States
        BY <3>1, Zenon DEF States
      <3> QED BY <1>1, <3>2 DEF UpdateBegin, UpdateArgs
    <2>2. SeqlockTypeOK'
      BY <1>1, <2>1 DEF UpdateBegin, seqlock_reader, SeqlockTypeOK
    <2>3. WriterInv'
      BY <1>1 DEF UpdateBegin, WriterInv, SeqlockTypeOK
    <2>4. ASSUME NEW r \in Readers PROVE ReaderInv(r)'
      BY <1>1 DEF UpdateBegin, seqlock_reader, ReaderInv, SeqlockTypeOK
    <2> QED BY <2>2, <2>3, <2>4
  <1>2. CASE StoreBalance
    <2>1. SeqlockTypeOK'
      BY <1>2, Zenon DEF StoreBalance, seqlock_reader, SeqlockTypeOK, States
    <2>2. WriterInv'
      BY <1>2 DEF StoreBalance, WriterInv, SeqlockTypeOK, States
    <2>3. ASSUME NEW r \in Readers PROVE ReaderInv(r)'
      BY <1>2 DEF StoreBalance, seqlock_reader, ReaderInv, SeqlockTypeOK
    <2> QED BY <2>1, <2>2, <2>3
  <1>3. CASE StoreFrozen
    <2>1. SeqlockTypeOK'
      BY <1>3, Zenon DEF StoreFrozen, seqlock_reader, SeqlockTypeOK, States
    <2>2. WriterInv'
      BY <1>3 DEF StoreFrozen, WriterInv, SeqlockTypeOK, States
    <2>3. ASSUME NEW r \in Readers PROVE ReaderInv(r)'
      BY <1>3 DEF StoreFrozen, seqlock_reader, ReaderInv, SeqlockTypeOK
    <2> QED BY <2>1, <2>2, <2>3
  <1>4. CASE UpdateEnd
    <2>1. /\ published' \in Seq(States) /\ Len(published') = Len(published) + 1
          /\ published'[Len(published')] = w_new
          /\ \A i \in 1 .. Len(published) : published'[i] = published[i]
      BY <1>4 DEF UpdateEnd, SeqlockTypeOK
    <2>2. SeqlockTypeOK'
      BY <1>4, <2>1 DEF UpdateEnd, seqlock_reader, SeqlockTypeOK
    <2>3. WriterInv'
      <3>1. /\ s_seq' = s_seq + 1 /\ s_seq = 2 * Len(published) - 1
            /\ Len(published') = Len(published) + 1 /\ Len(published) \in Nat
        BY <1>4, <2>1 DEF UpdateEnd, WriterInv, SeqlockTypeOK
      <3>2. s_seq' = 2 * Len(published') - 2
        BY <3>1
      <3>3. w_pc' = "idle" /\ s_cell' = published'[Len(published')]
        BY <1>4, <2>1 DEF UpdateEnd, WriterInv
      <3> QED BY <3>2, <3>3 DEF WriterInv
    <2>4. ASSUME NEW r \in Readers PROVE ReaderInv(r)'
      BY <1>4, <2>1 DEF UpdateEnd, seqlock_reader, ReaderInv, SeqlockTypeOK
    <2> QED BY <2>2, <2>3, <2>4
  <1> QED BY <1>1, <1>2, <1>3, <1>4

\* The steps of read: each writes what belongs to its reader alone.
LEMMA ReadInv ==
  ASSUME SeqlockInv, NEW q \in Readers,
         ReadCall(q) \/ LoadSeq1(q) \/ LoadBalance(q) \/ LoadFrozen(q) \/ LoadSeq2(q)
  PROVE  SeqlockInv'
  <1> USE DEF SeqlockInv
  <1>0. UNCHANGED seqlock_writer
    BY DEF ReadCall, LoadSeq1, LoadBalance, LoadFrozen, LoadSeq2
  <1>1. WriterInv'
    BY <1>0 DEF seqlock_writer, WriterInv
  <1>2. SeqlockTypeOK'
    <2> USE <1>0 DEF seqlock_writer, SeqlockTypeOK
    <2>1. CASE ReadCall(q)
      BY <2>1 DEF ReadCall
    <2>2. CASE LoadSeq1(q)
      BY <2>2 DEF LoadSeq1
    <2>3. CASE LoadBalance(q)
      BY <2>3, Zenon DEF LoadBalance, States
    <2>4. CASE LoadFrozen(q)
      BY <2>4, Zenon DEF LoadFrozen, States
    <2>5. CASE LoadSeq2(q)
      BY <2>5 DEF LoadSeq2
    <2> QED BY <2>1, <2>2, <2>3, <2>4, <2>5
  <1>3. ASSUME NEW r \in Readers PROVE ReaderInv(r)'
    <2> USE <1>0 DEF seqlock_writer
    <2>1. CASE r # q
      <3>1. /\ s_pc'[r] = s_pc[r] /\ s_seq1'[r] = s_seq1[r] /\ s_copy'[r] = s_copy[r]
            /\ s_from'[r] = s_from[r]
        BY <2>1 DEF SeqlockTypeOK, ReadCall, LoadSeq1, LoadBalance, LoadFrozen, LoadSeq2
      <3> QED BY <3>1 DEF ReaderInv
    <2>2. CASE r = q /\ ReadCall(q)
      BY <2>2 DEF ReadCall, ReaderInv, SeqlockTypeOK
    <2>3. CASE r = q /\ LoadSeq1(q)
      <3>1. w_pc = "idle"
        <4>1. s_seq % 2 = 0 /\ Len(published) \in Nat
          BY <2>3 DEF LoadSeq1, SeqlockTypeOK
        <4>2. s_seq # 2 * Len(published) - 1
          BY <4>1
        <4> QED BY <4>2 DEF WriterInv
      <3> QED BY <2>3, <3>1 DEF LoadSeq1, ReaderInv, SeqlockTypeOK
    <2>4. CASE r = q /\ LoadBalance(q)
      BY <2>4 DEF LoadBalance, ReaderInv, SeqlockTypeOK, States
    <2>5. CASE r = q /\ LoadFrozen(q)
      BY <2>5 DEF LoadFrozen, ReaderInv, SeqlockTypeOK, States
    <2>6. CASE r = q /\ LoadSeq2(q)
      <3>1. CASE s_seq = s_seq1[q]
        <4>1. /\ w_pc = "idle" /\ s_copy[q].balance = s_cell.balance
              /\ s_copy[q].frozen = s_cell.frozen
          BY <2>6, <3>1 DEF LoadSeq2, ReaderInv
        <4>2. s_copy[q] = s_cell
          <5>1. s_copy[q] \in States /\ s_cell \in States
            BY DEF SeqlockTypeOK
          <5>2. /\ s_copy[q] = [balance |-> s_copy[q].balance, frozen |-> s_copy[q].frozen]
                /\ s_cell = [balance |-> s_cell.balance, frozen |-> s_cell.frozen]
            BY <5>1 DEF States
          <5> QED BY <4>1, <5>2
        <4>3. s_copy[q] = published[Len(published)] /\ Len(published) \in s_from[q] .. Len(published)
          BY <4>1, <4>2 DEF WriterInv, ReaderInv, SeqlockTypeOK
        <4> QED BY <2>6, <3>1, <4>3 DEF LoadSeq2, ReaderInv, SeqlockTypeOK
      <3>2. CASE s_seq # s_seq1[q]
        BY <2>6, <3>2 DEF LoadSeq2, ReaderInv, SeqlockTypeOK
      <3> QED BY <3>1, <3>2
    <2> QED BY <2>1, <2>2, <2>3, <2>4, <2>5, <2>6
  <1> QED BY <1>1, <1>2, <1>3

\* Whatever the interleaving of one writer and any number of readers, read
\* returns a state some update published, whole, and none older than the newest
\* when the read began: the second load of the sequence word decides it.
THEOREM ReadsAlwaysSnapshots == SeqlockSpec => []ReadsAreSnapshots
  <1>1. SeqlockInv /\ [SeqlockNext]_seqlock_vars => SeqlockInv'
    <2> SUFFICES ASSUME SeqlockInv, [SeqlockNext]_seqlock_vars PROVE SeqlockInv'
      OBVIOUS
    <2>1. CASE UNCHANGED seqlock_vars
      BY <2>1 DEF seqlock_vars, seqlock_writer, seqlock_reader, SeqlockInv, SeqlockTypeOK,
                  WriterInv, ReaderInv
    <2> QED BY <2>1, UpdateInv, ReadInv DEF SeqlockNext
  <1>2. SeqlockInv => ReadsAreSnapshots
    BY DEF SeqlockInv, ReaderInv, ReadsAreSnapshots
  <1> QED BY InitSeqlockInv, <1>1, <1>2, PTL DEF SeqlockSpec
==============================================================================
