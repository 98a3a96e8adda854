-------------------------------- MODULE Risk --------------------------------
(***************************************************************************)
(* The arithmetic of the risk checks, as operators.                        *)
(*   crates/risk-engine: config.rs, tier0.rs, and shard.rs                 *)
(*   crates/matching-engine: risk_check.rs                                 *)
(* Margin fractions have FracScale ticks (1e6 in the code).  Products the  *)
(* code widens to i128 are exact here; the ones it saturates at i64::MAX   *)
(* saturate at IntMax.                                                     *)
(***************************************************************************)
EXTENDS Position, Sequences, FiniteSetsExt

CONSTANTS FracScale, IntMax

saturated(n) == IF n > IntMax THEN IntMax ELSE IF n < -IntMax - 1 THEN -IntMax - 1 ELSE n

saturating_mul(a, b) == saturated(a * b)

\* A quantity is a u64; tier-0 casts it to an i64.
as_i64(n) == IF n > IntMax THEN n - 2 * (IntMax + 1) ELSE n

\* Tests are tried in order, the first that fails gives the reason.
FirstFailed(tests) ==
  LET failed == {i \in DOMAIN tests : tests[i][1]}
  IN  IF failed = {} THEN "Ok" ELSE tests[Min(failed)][2]

(***************************************************************************)
(* The margin of an account.                                               *)
(***************************************************************************)
\* recompute_margin over the positions of one account, a function from its
\* symbols; marks gives a price to some symbols, the others use their entry.
Mark(positions, marks, s) ==
  IF s \in DOMAIN marks THEN marks[s] ELSE positions[s].avg_entry_price

recompute_margin(deposit, positions, marks, fraction) ==
  LET open == {s \in DOMAIN positions : positions[s].net_qty # 0}
  IN  [balance |-> deposit
         + MapThenSumSet(LAMBDA s : positions[s].realised_pnl, DOMAIN positions)
         + MapThenSumSet(LAMBDA s : unrealised_pnl(positions[s], Mark(positions, marks, s)), open),
       used_margin |->
         MapThenSumSet(LAMBDA s : quot(saturating_mul(notional(positions[s],
                                         Mark(positions, marks, s)), fraction), FracScale), open)]

(***************************************************************************)
(* Tier-0 of the gateway: tier0_order_check and check.                     *)
(***************************************************************************)
order_notional(price, qty) == quot(saturating_mul(price, as_i64(qty)), PriceScale)

tier0_order_check(price, qty, limits) ==
  FirstFailed(<< <<order_notional(price, qty) > limits.max_order_notional, "NotionalTooLarge">>,
                 <<qty = 0, "InvalidQty">>,
                 <<price <= 0, "InvalidPrice">> >>)

\* Faulty variant: margin already in use is not deducted.
available_gross(account) == account.balance

available_margin(account) == saturated(account.balance - account.used_margin)

check(account, limits, price, qty) ==
  LET static   == tier0_order_check(price, qty, limits)
      required == quot(saturating_mul(order_notional(price, qty),
                                      limits.initial_margin_fraction), FracScale)
  IN  IF account.frozen THEN "AccountFrozen"
      ELSE IF static # "Ok" THEN static
      ELSE IF required > available_margin(account) THEN "InsufficientMargin" ELSE "Ok"

(***************************************************************************)
(* The matching engine's inline check.  reference is a set of at most one  *)
(* price: the last trade.                                                  *)
(***************************************************************************)
notional_of(price, qty) == IF price <= 0 THEN 0 ELSE (price * qty) \div PriceScale

price_out_of_band(price, reference, bps) ==
  reference # 0 /\ quot(abs(price - reference) * 10000, reference) > bps

\* Within an i64: the code's casts and saturating sum do not come into play.
projected_position(current, side, qty) == current + Signed(side, qty)

check_new_order(order, limits, account, reference) ==
  FirstFailed(
    << <<account.halted, "AccountHalted">>,
       <<account.frozen, "AccountFrozen">>,
       <<order.qty > limits.max_order_qty, "MaxOrderQtyExceeded">>,
       <<notional_of(order.price, order.qty) > limits.max_order_notional,
         "MaxOrderNotionalExceeded">>,
       <<limits.price_band_bps > 0 /\ \E r \in reference :
           price_out_of_band(order.price, r, limits.price_band_bps), "PriceOutOfBand">>,
       <<account.open_order_count >= limits.max_open_orders, "OpenOrderLimitExceeded">>,
       <<abs(projected_position(account.position, order.side, order.qty))
           > limits.max_position_abs, "PositionLimitExceeded">> >>)

(***************************************************************************)
(* RiskShard::process_event on [positions, account, commands]; commands    *)
(* are the Liquidates it returns.  No marks are set.                       *)
(***************************************************************************)
NoMarks == [s \in {} |-> 0]

\* Faulty variant: a later fill that is within margin lifts the freeze.
FrozenAfterLast(was, breach) == breach

FrozenAfter(was, breach) == was \/ breach

\* One side of a Trade.
ApplySide(state, a, side, ev, deposit, fraction) ==
  LET ps     == [state.positions[a] EXCEPT ![ev.symbol] = apply_fill(@, side, ev.price, ev.qty)]
      m      == recompute_margin(deposit, ps, NoMarks, fraction)
      breach == m.used_margin > m.balance
  IN  [positions |-> [state.positions EXCEPT ![a] = ps],
       account   |-> [state.account EXCEPT ![a].balance = m.balance,
                                           ![a].used_margin = m.used_margin,
                                           ![a].frozen = FrozenAfter(@, breach)],
       commands  |-> IF ~breach THEN state.commands
                     ELSE Append(state.commands, [type |-> "Liquidate", account |-> a,
                                                  symbol |-> ev.symbol])]

opposite(side) == IF side = "Buy" THEN "Sell" ELSE "Buy"

ProcessEvent(state, ev, owned, deposits, fraction) ==
  LET side(st, a, sd) == IF a \in owned THEN ApplySide(st, a, sd, ev, deposits[a], fraction)
                         ELSE st
  IN  IF ev.type # "Trade" THEN state
      ELSE side(side(state, ev.maker_acct, ev.maker_side), ev.taker_acct, opposite(ev.maker_side))
=============================================================================
