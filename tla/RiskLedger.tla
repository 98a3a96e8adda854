----------------------------- MODULE RiskLedger -----------------------------
(***************************************************************************)
(* What tier-0 accepts, against the positions that any sequence of fills   *)
(* leaves.                                                                 *)
(***************************************************************************)
EXTENDS PositionLedger, Risk

CONSTANTS
  Deposit,   \* seed_deposit
  Limits     \* RiskLimits

MarginOf(p) == recompute_margin(Deposit, [s \in {"s"} |-> p], [s \in {} |-> 0],
                                Limits.maintenance_margin_fraction)

\* The orders tier-0 lets through while the shard has published this position.
Accepted ==
  LET margin  == MarginOf(position)
      account == [balance |-> margin.balance, used_margin |-> margin.used_margin,
                  frozen |-> FALSE]
  IN  {o \in FillPrices \X FillQtys : check(account, Limits, o[1], o[2]) = "Ok"}

\* What tier-0 lets through is affordable in exact arithmetic: saturation at
\* i64::MAX never turns a rejection into an acceptance, as long as the order
\* limit is below i64::MAX / scale, its margin fits and so does the quantity.
AcceptedIsAffordable ==
  LET margin == MarginOf(position)
  IN  \A o \in Accepted :
        /\ o[1] * o[2] <= (Limits.max_order_notional + 1) * PriceScale
        /\ quot(quot(o[1] * o[2], PriceScale) * Limits.initial_margin_fraction, FracScale)
             <= margin.balance - margin.used_margin

\* Tier-0 and the shard agree: an order tier-0 accepts and that only opens or
\* increases the position does not, when it fills in full, make the shard
\* liquidate the account (one tick of rounding aside).
AcceptedIsNotLiquidated ==
  \A o \in Accepted, side \in {"Buy", "Sell"} :
    position.net_qty = 0 \/ Increases(side) =>
      LET margin == MarginOf(apply_fill(position, side, o[1], o[2]))
      IN  margin.used_margin <= margin.balance + 1

\* Tier-0 (tier0.rs) is sound whatever was filled before: what it accepts is
\* affordable, and filling it does not by itself liquidate.
AcceptedStaysSafe == AcceptedIsAffordable /\ AcceptedIsNotLiquidated
=============================================================================
