--------------------------- MODULE PositionLedger ---------------------------
(***************************************************************************)
(* One account of a risk shard trading one symbol: any sequence of fills   *)
(* applied to its Position, next to what a cash ledger says of the same    *)
(* fills.                                                                  *)
(***************************************************************************)
EXTENDS Position

CONSTANTS
  FillPrices, FillQtys,   \* the fills
  MaxFills                \* bound

\* A fill has a price and a positive quantity.
ASSUME FillAssumption ==
  PriceScale \in Nat \ {0} /\ FillPrices \subseteq Int /\ FillQtys \subseteq Nat \ {0}

VARIABLES
  position,   \* the shard's Position
  cash,       \* minus what the fills cost, in price ticks times quantity ticks
  lost,       \* the most the truncating divisions so far can have lost
  fills       \* fills applied

ledger_vars == <<position, cash, lost, fills>>

LedgerInit == position = FlatPosition /\ cash = 0 /\ lost = 0 /\ fills = 0

Increases(side) ==
  position.net_qty # 0 /\ (position.net_qty > 0) = (side = "Buy")

\* process_event for one side of a Trade.
Fill(side, price, qty) ==
  /\ fills < MaxFills
  /\ position' = apply_fill(position, side, price, qty)
  /\ cash' = cash - Signed(side, qty) * price
  /\ lost' = lost + (IF Increases(side) THEN abs(position'.net_qty) - 1
                     ELSE IF position.net_qty # 0 THEN PriceScale - 1 ELSE 0)
  /\ fills' = fills + 1

LedgerNext == \E side \in {"Buy", "Sell"}, price \in FillPrices, qty \in FillQtys :
                Fill(side, price, qty)

LedgerSpec == LedgerInit /\ [][LedgerNext]_ledger_vars

(***************************************************************************)
(* Property.                                                               *)
(***************************************************************************)

\* Equity never drifts: realised PnL plus the entry value of the open position
\* is what the cash ledger says, up to the ticks the divisions truncate, over
\* any mix of opening, increasing, reducing, closing and flipping.
EquityMatchesCash ==
  abs(PriceScale * position.realised_pnl - position.net_qty * position.avg_entry_price - cash)
    <= lost
=============================================================================
