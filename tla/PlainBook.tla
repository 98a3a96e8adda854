----------------------------- MODULE PlainBook -----------------------------
(***************************************************************************)
(* What OrderBook::apply does and reports, for the modules that compose    *)
(* books with other components: limit orders at a single price that rest   *)
(* until cancelled.  The whole of apply is in module OrderBook.  A book is *)
(* the sequence of its resting orders, oldest first; a command sc is       *)
(* [seq, cmd]; the id of an order is its sequence number.                  *)
(***************************************************************************)
EXTENDS Integers, Sequences, FiniteSetsExt

BookTop(sc) == [type |-> "BookTop", seq |-> sc.seq]

Rejected(sc, reason) ==
  [type |-> "Rejected", seq |-> sc.seq, account |-> sc.cmd.account, reason |-> reason]

Cancelled(sc, id) == [type |-> "Cancelled", seq |-> sc.seq, order_id |-> id]

\* One resting order m meets what is left of the incoming one.
MatchOne(sc, state, m) ==
  LET qty == Min({state.left, m.qty})
  IN  CASE state.left = 0 \/ m.side = sc.cmd.side ->
             [state EXCEPT !.kept = Append(@, m)]
        [] state.left > 0 /\ m.side # sc.cmd.side /\ m.account = sc.cmd.account ->
             [state EXCEPT !.events = Append(@, Cancelled(sc, m.id))]
        [] OTHER ->
             [left   |-> state.left - qty,
              kept   |-> IF qty = m.qty THEN state.kept
                         ELSE Append(state.kept, [m EXCEPT !.qty = @ - qty]),
              events |-> Append(state.events,
                           [type |-> "Trade", seq |-> sc.seq, symbol |-> sc.cmd.symbol,
                            maker_order |-> m.id, maker_acct |-> m.account,
                            taker_acct |-> sc.cmd.account, maker_side |-> m.side,
                            price |-> m.price, qty |-> qty])]

\* The incoming order meets the resting ones, the oldest first.
MatchAll(sc, resting) ==
  LET state[n \in 0 .. Len(resting)] ==
        IF n = 0 THEN [left |-> sc.cmd.qty, kept |-> <<>>, events |-> <<>>]
                 ELSE MatchOne(sc, state[n - 1], resting[n])
  IN  state[Len(resting)]

ApplyNewOrder(sc, resting) ==
  LET r == MatchAll(sc, resting)
      order == [id |-> sc.seq, account |-> sc.cmd.account, side |-> sc.cmd.side,
                price |-> sc.cmd.price, qty |-> r.left]
  IN  IF r.left = 0 THEN [book |-> r.kept, events |-> Append(r.events, BookTop(sc))]
      ELSE [book |-> Append(r.kept, order),
            events |-> r.events \o <<[type |-> "Accepted", seq |-> sc.seq], BookTop(sc)>>]

\* The orders of a book at the positions in I, in their order.
OrdersAt(resting, I) ==
  LET kept[n \in 0 .. Len(resting)] ==
        IF n = 0 THEN <<>>
        ELSE IF n \in I THEN Append(kept[n - 1], resting[n]) ELSE kept[n - 1]
  IN  kept[Len(resting)]

ApplyCancel(sc, resting) ==
  LET mine == {i \in DOMAIN resting : resting[i].id = sc.cmd.order_id}
      i    == CHOOSE n \in mine : TRUE
  IN  CASE mine = {} -> [book |-> resting, events |-> <<Rejected(sc, "OrderNotFound")>>]
        [] mine # {} /\ resting[i].account # sc.cmd.account ->
             [book |-> resting, events |-> <<Rejected(sc, "WrongAccount")>>]
        [] OTHER -> [book |-> OrdersAt(resting, DOMAIN resting \ {i}),
                     events |-> <<Cancelled(sc, sc.cmd.order_id)>>]

OwnedBy(resting, account) == {i \in DOMAIN resting : resting[i].account = account}
=============================================================================
