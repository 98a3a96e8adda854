------------------------------ MODULE Position ------------------------------
(***************************************************************************)
(* The Position of one account in one symbol, as operators.                *)
(*   crates/risk-engine/src/position.rs                                    *)
(* Prices, quantities and money are fixed-point integers with PriceScale   *)
(* ticks per unit (1e8 in the code).  Division truncates toward zero.      *)
(* Products the code widens to i128 are exact here.                        *)
(***************************************************************************)
EXTENDS Integers

CONSTANT PriceScale

abs(n) == IF n < 0 THEN -n ELSE n

quot(a, b) == IF a < 0 THEN -((-a) \div b) ELSE a \div b

smaller(a, b) == IF a <= b THEN a ELSE b

Signed(side, qty) == IF side = "Buy" THEN qty ELSE -qty

FlatPosition == [net_qty |-> 0, avg_entry_price |-> 0, realised_pnl |-> 0]

direction(p) == IF p.net_qty > 0 THEN 1 ELSE -1

\* Faulty variant: a flipped position keeps the entry price of the old one.
AvgAfterCloseKept(p, new, price) == IF new = 0 THEN 0 ELSE p.avg_entry_price

AvgAfterClose(p, new, price) ==
  IF new = 0 THEN 0
  ELSE IF (new > 0) # (p.net_qty > 0) THEN price ELSE p.avg_entry_price

apply_fill(p, side, price, qty) ==
  LET signed == Signed(side, qty)
      prev   == p.net_qty
      new    == prev + signed
      close  == smaller(qty, abs(prev))
  IN  CASE prev = 0 ->
             [p EXCEPT !.avg_entry_price = price, !.net_qty = new]
        [] prev # 0 /\ (prev > 0) = (signed > 0) ->
             [p EXCEPT !.avg_entry_price =
                         quot(p.avg_entry_price * abs(prev) + price * qty, abs(new)),
                       !.net_qty = new]
        [] OTHER ->
             [p EXCEPT !.realised_pnl =
                         @ + quot((price - p.avg_entry_price) * direction(p) * close, PriceScale),
                       !.net_qty = new,
                       !.avg_entry_price = AvgAfterClose(p, new, price)]

unrealised_pnl(p, mark) ==
  IF p.net_qty = 0 THEN 0
  ELSE quot((mark - p.avg_entry_price) * abs(p.net_qty), PriceScale) * direction(p)

notional(p, mark) == quot(mark * abs(p.net_qty), PriceScale)
=============================================================================
