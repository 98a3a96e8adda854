------------------------------ MODULE OrderBook ------------------------------
(***************************************************************************)
(* One limit order book: crates/order-book, OrderBook::apply.              *)
(*                                                                         *)
(* apply() runs on the matching thread of its symbol and nothing else      *)
(* touches the book, so a command runs to completion before the next one   *)
(* starts.  A rejected or cancelling command is one action.  A new order   *)
(* that matches takes one action per iteration of match_against_book's     *)
(* loop; `taker' holds its loop variables and is NoTaker between commands. *)
(*                                                                         *)
(* The two mirrored halves of the ladder (bids/asks, best_bid_idx/         *)
(* best_ask_idx) are functions of the side.  A slotmap key is generational *)
(* and never reused, so the order id (the sequence number) stands for it   *)
(* and id_to_key is the set of ids that it maps.  An Option that is None   *)
(* is NoIdx.  A level is the FIFO of its keys; the intrusive list and the  *)
(* running total behind it are modelled in PriceLevel.                     *)
(***************************************************************************)
EXTENDS Integers, FiniteSets, FiniteSetsExt, Functions, Sequences

CONSTANTS
  Accounts,   \* account ids
  TickFloor,  \* BookConfig.tick_floor: the price of ladder index 0
  NumTicks,   \* BookConfig.num_ticks: the length of the ladder
  Prices,     \* limit prices that commands carry, in or out of the ladder
  Qtys,       \* quantities that commands carry, 0 included
  Capacity,   \* arena.capacity()
  MaxSeq,     \* bound: sequence numbers the sequencer hands to this book
  NoTaker     \* no command is being matched

ASSUME LadderAssumption == TickFloor \in Int /\ NumTicks \in Nat
ASSUME InputAssumption  == Prices \subseteq Int /\ Qtys \subseteq Nat
ASSUME BoundAssumption  == Capacity \in Nat /\ MaxSeq \in Nat

VARIABLES
  arena,      \* id -> resting order
  id_to_key,  \* ids the cancel index knows
  levels,     \* side -> ladder index -> FIFO of ids
  best,       \* side -> ladder index of the best level, or NoIdx
  taker,      \* the aggressor being matched, or NoTaker
  seq,        \* sequence number of the last command
  events      \* what the current or last command returned

book == <<arena, id_to_key, levels, best>>
vars == <<arena, id_to_key, levels, best, taker, seq, events>>

Sides == {"Buy", "Sell"}
Idx   == 0 .. NumTicks - 1
NoIdx == -1
Ids   == Nat \ {0}

Opposite(side) == IF side = "Buy" THEN "Sell" ELSE "Buy"

NewOrders == [account : Accounts, side : Sides, price : Prices, qty : Qtys,
              order_type : {"Limit", "Market"}, tif : {"Gtc", "Ioc", "Fok"}]

RestingOrder == [account : Accounts, side : Sides, price : Int, qty : Nat]

(***************************************************************************)
(* Ladder arithmetic (book.rs).                                            *)
(***************************************************************************)
price_to_idx(price) == IF price - TickFloor \in Idx THEN price - TickFloor ELSE NoIdx

idx_to_price(idx) == TickFloor + idx

\* Price (or index) i is at least as aggressive as j for an order of `side'.
AsAggressive(side, i, j) == IF side = "Buy" THEN i >= j ELSE i <= j

\* scan_best_bid_down / scan_best_ask_up: b is the first occupied index met
\* when walking the ladder from `start' away from the touch.
ScanBest(side, start, ladder, b) ==
  LET Behind(j) == AsAggressive(side, start, j)
  IN  \/ /\ b \in Idx /\ Behind(b) /\ ladder[b] # <<>>
         /\ \A j \in Idx : Behind(j) /\ ladder[j] # <<>> => AsAggressive(side, b, j)
      \/ /\ b = NoIdx
         /\ \A j \in Idx : Behind(j) => ladder[j] = <<>>

\* Faulty variant: an emptied best level is not rescanned.
ClearEmptyBestNever(side, idx, ladder, b) == b = best[side]

\* clear_empty_best, called for a level that has just lost an order: b is the
\* new best index of `side'.
ClearEmptyBest(side, idx, ladder, b) ==
  IF ladder[idx] = <<>> /\ best[side] = idx
    THEN ScanBest(side, idx, ladder, b)
    ELSE b = best[side]

\* refresh_best_bid_up / refresh_best_ask_down
RefreshBest(side, hint) ==
  IF best[side] = NoIdx \/ ~AsAggressive(side, best[side], hint) THEN hint ELSE best[side]

\* best_bid() / best_ask(): NoIdx stands for None.
BestPrice(side, b, lv) ==
  IF b[side] # NoIdx /\ lv[side][b[side]] # <<>> THEN {idx_to_price(b[side])} ELSE {}

(***************************************************************************)
(* Events (core-types EngineEvent); an absent price is the empty set.      *)
(***************************************************************************)
Rejected(id, reason) == [type |-> "Rejected", id |-> id, reason |-> reason]
Cancelled(id)        == [type |-> "Cancelled", id |-> id]
Accepted(id, qty)    == [type |-> "Accepted", id |-> id, qty |-> qty]
Trade(maker, id, price, qty) ==
  [type |-> "Trade", maker |-> maker, id |-> id, price |-> price, qty |-> qty]
BookTop(b, lv) ==
  [type |-> "BookTop", bid |-> BestPrice("Buy", b, lv), ask |-> BestPrice("Sell", b, lv)]

(***************************************************************************)
(* Validation of a new order.                                              *)
(***************************************************************************)
Crosses(side, price, order_type, idx) ==
  order_type = "Market" \/ AsAggressive(side, price, idx_to_price(idx))

\* Faulty variant: the scan compares the price of a market order.
CanFullyFillPricedMarket(o) ==
  LET Fillable == {k \in DOMAIN arena :
                     /\ arena[k].side = Opposite(o.side)
                     /\ arena[k].account # o.account
                     /\ AsAggressive(o.side, o.price, arena[k].price)}
  IN  MapThenSumSet(LAMBDA k : arena[k].qty, Fillable) >= o.qty

\* The parameters of can_fully_fill besides the quantity.
Terms(o) == [account |-> o.account, side |-> o.side, price |-> o.price,
             order_type |-> o.order_type]

\* One resting order of the fill-or-kill scan: the account's own orders do not
\* count, and the subtraction saturates.
Deduct(o, rem, order) ==
  IF order.account = o.account THEN rem
  ELSE IF order.qty >= rem THEN 0 ELSE rem - order.qty

\* The walk along the links of a level.
DeductLevel(o, rem, orders, level) ==
  LET left[n \in 0 .. Len(level)] ==
        IF n = 0 THEN rem ELSE Deduct(o, left[n - 1], orders[level[n]])
  IN  left[Len(level)]

\* The ladder index of a step away from the touch.
ScanIdx(side, step) == IF side = "Buy" THEN step - 1 ELSE NumTicks - step

\* One level of the scan.  Levels past the first that does not cross do not
\* cross either, and nothing is deducted from 0, so skipping a level and going
\* on are the code's two breaks.
ScanStep(o, rem, orders, ladder, step) ==
  IF Crosses(o.side, o.price, o.order_type, ScanIdx(o.side, step))
    THEN DeductLevel(o, rem, orders, ladder[ScanIdx(o.side, step)]) ELSE rem

\* What the read-only scan over the opposite ladder leaves of rem.
ScanLeft(o, rem, orders, ladder) ==
  LET left[step \in 0 .. NumTicks] ==
        IF step = 0 THEN rem ELSE ScanStep(o, left[step - 1], orders, ladder, step)
  IN  left[NumTicks]

CanFullyFill(o) == ScanLeft(Terms(o), o.qty, arena, levels[Opposite(o.side)]) = 0

\* The early returns of apply_new_order, in their order.
Validate(o) ==
  IF o.qty = 0 THEN "InvalidQty"
  ELSE IF o.order_type = "Limit" /\ price_to_idx(o.price) = NoIdx THEN "PriceOutOfRange"
  ELSE IF o.tif = "Fok" /\ ~CanFullyFill(o) THEN "FokNotFullyFillable"
  ELSE "Ok"

(***************************************************************************)
(* Commands.  Each takes the next sequence number and starts only when the *)
(* previous one has returned.                                              *)
(***************************************************************************)
NextCommand == taker = NoTaker /\ seq < MaxSeq /\ seq' = seq + 1

RejectOnEntry(o) ==
  /\ NextCommand
  /\ Validate(o) # "Ok"
  /\ events' = <<Rejected(seq', Validate(o))>>
  /\ UNCHANGED <<book, taker>>

BeginMatch(o) ==
  /\ NextCommand
  /\ Validate(o) = "Ok"
  /\ taker' = [id |-> seq', account |-> o.account, side |-> o.side, price |-> o.price,
               qty |-> o.qty, remaining |-> o.qty, order_type |-> o.order_type,
               tif |-> o.tif]
  /\ events' = <<>>
  /\ UNCHANGED book

Without(level, pos) == SubSeq(level, 1, pos - 1) \o SubSeq(level, pos + 1, Len(level))

Forget(id) == id_to_key \ {id}

\* The order at position pos of a level leaves the level, the arena and the
\* cancel index, and the best index moves on if the level is now empty.
Unlink(side, idx, pos) ==
  LET key    == levels[side][idx][pos]
      ladder == [levels[side] EXCEPT ![idx] = Without(@, pos)]
  IN  /\ arena' = [k \in DOMAIN arena \ {key} |-> arena[k]]
      /\ id_to_key' = Forget(key)
      /\ levels' = [levels EXCEPT ![side] = ladder]
      /\ \E b \in Idx \cup {NoIdx} : /\ ClearEmptyBest(side, idx, ladder, b)
                                    /\ best' = [best EXCEPT ![side] = b]

(***************************************************************************)
(* match_against_book: one action per loop iteration.                      *)
(***************************************************************************)
MakerSide == Opposite(taker.side)
MakerKey  == levels[MakerSide][best[MakerSide]][1]

\* The loop does not break.
Matchable ==
  /\ taker # NoTaker
  /\ taker.remaining > 0
  /\ best[MakerSide] # NoIdx
  /\ Crosses(taker.side, taker.price, taker.order_type, best[MakerSide])

\* Faulty variant: the own maker goes to the end of its level.
CancelOwnMakerNot ==
  /\ Matchable
  /\ arena[MakerKey].account = taker.account
  /\ levels' = [levels EXCEPT ![MakerSide][best[MakerSide]] = Append(Tail(@), Head(@))]
  /\ UNCHANGED <<arena, id_to_key, best, taker, seq, events>>

\* Faulty variant: self-trade prevention removes the maker without telling.
CancelOwnMakerSilently ==
  /\ Matchable
  /\ arena[MakerKey].account = taker.account
  /\ Unlink(MakerSide, best[MakerSide], 1)
  /\ UNCHANGED <<taker, seq, events>>

\* Self-trade prevention: the resting order is cancelled, the taker goes on.
CancelOwnMaker ==
  /\ Matchable
  /\ arena[MakerKey].account = taker.account
  /\ events' = Append(events, Cancelled(MakerKey))
  /\ Unlink(MakerSide, best[MakerSide], 1)
  /\ UNCHANGED <<taker, seq>>

FillQty ==
  IF taker.remaining < arena[MakerKey].qty THEN taker.remaining ELSE arena[MakerKey].qty

\* What fill_head answers.
MakerExhausted == FillQty = arena[MakerKey].qty

\* The taker and the event of a fill.
Fill ==
  /\ Matchable
  /\ arena[MakerKey].account # taker.account
  /\ taker' = [taker EXCEPT !.remaining = @ - FillQty]
  /\ events' = Append(events, Trade(MakerKey, taker.id, arena[MakerKey].price, FillQty))
  /\ UNCHANGED seq

\* The maker is filled completely and removed.
FillMaker == Fill /\ MakerExhausted /\ Unlink(MakerSide, best[MakerSide], 1)

\* The maker keeps its place with what is left of it.
FillTaker ==
  /\ Fill
  /\ ~MakerExhausted
  /\ arena' = [arena EXCEPT ![MakerKey].qty = @ - FillQty]
  /\ UNCHANGED <<id_to_key, levels, best>>

(***************************************************************************)
(* After the loop.                                                         *)
(***************************************************************************)
ReturnFilled ==
  /\ taker # NoTaker
  /\ taker.remaining = 0
  /\ events' = Append(events, BookTop(best, levels))
  /\ taker' = NoTaker
  /\ UNCHANGED <<book, seq>>

\* The loop broke and left a remainder.
Unfilled == taker # NoTaker /\ taker.remaining > 0 /\ ~Matchable

Immediate == taker.tif \in {"Ioc", "Fok"} \/ taker.order_type = "Market"

\* Faulty variant: an unfilled remainder is always reported as rejected.
RemainderRejected == Rejected(taker.id, "IocNoMatch")

RemainderEvent ==
  IF taker.remaining < taker.qty THEN Cancelled(taker.id)
                                 ELSE Rejected(taker.id, "IocNoMatch")

CancelRemainder ==
  /\ Unfilled
  /\ Immediate
  /\ events' = events \o <<RemainderEvent, BookTop(best, levels)>>
  /\ taker' = NoTaker
  /\ UNCHANGED <<book, seq>>

ArenaFull == Cardinality(DOMAIN arena) >= Capacity

RejectArenaFull ==
  /\ Unfilled
  /\ ~Immediate
  /\ ArenaFull
  /\ events' = Append(events, Rejected(taker.id, "ArenaFull"))
  /\ taker' = NoTaker
  /\ UNCHANGED <<book, seq>>

\* Faulty variant: the order is linked at the head of its level.
PushFront(level, id) == <<id>> \o level

PushBack(level, id) == Append(level, id)

Rest ==
  /\ Unfilled
  /\ ~Immediate
  /\ ~ArenaFull
  /\ LET idx == price_to_idx(taker.price)
         resting == [account |-> taker.account, side |-> taker.side,
                     price |-> taker.price, qty |-> taker.remaining]
     IN  /\ arena' = [k \in DOMAIN arena \cup {taker.id} |->
                        IF k = taker.id THEN resting ELSE arena[k]]
         /\ levels' = [levels EXCEPT ![taker.side][idx] = PushBack(@, taker.id)]
         /\ best' = [best EXCEPT ![taker.side] = RefreshBest(taker.side, idx)]
  /\ id_to_key' = id_to_key \cup {taker.id}
  /\ events' = events \o <<Accepted(taker.id, taker.remaining), BookTop(best', levels')>>
  /\ taker' = NoTaker
  /\ UNCHANGED seq

(***************************************************************************)
(* apply_cancel.                                                           *)
(***************************************************************************)
RejectCancel(account, id) ==
  /\ NextCommand
  /\ id \in id_to_key => arena[id].account # account
  /\ events' = << Rejected(id, IF id \in id_to_key THEN "WrongAccount"
                                                   ELSE "OrderNotFound") >>
  /\ UNCHANGED <<book, taker>>

CancelOpen(account, id) ==
  /\ NextCommand
  /\ id \in id_to_key
  /\ arena[id].account = account
  /\ LET idx == price_to_idx(arena[id].price)
         side == arena[id].side
     IN  \E pos \in 1 .. Len(levels[side][idx]) :
           levels[side][idx][pos] = id /\ Unlink(side, idx, pos)
  /\ events' = <<Cancelled(id)>>
  /\ UNCHANGED taker

\* Liquidate and FreezeAccount do nothing at the book.
IgnoreCommand ==
  /\ NextCommand
  /\ events' = <<>>
  /\ UNCHANGED <<book, taker>>

(***************************************************************************)
(* Specification.                                                          *)
(***************************************************************************)
Init ==
  /\ arena = [k \in {} |-> 0]
  /\ id_to_key = {}
  /\ levels = [s \in Sides |-> [i \in Idx |-> <<>>]]
  /\ best = [s \in Sides |-> NoIdx]
  /\ taker = NoTaker
  /\ seq = 0
  /\ events = <<>>

\* The steps of a command that is being matched.
MatchStep ==
  \/ CancelOwnMaker \/ FillMaker \/ FillTaker
  \/ ReturnFilled \/ CancelRemainder \/ RejectArenaFull \/ Rest

Next ==
  \/ \E o \in NewOrders : RejectOnEntry(o) \/ BeginMatch(o)
  \/ \E account \in Accounts, id \in 1 .. MaxSeq :
       RejectCancel(account, id) \/ CancelOpen(account, id)
  \/ IgnoreCommand
  \/ MatchStep

Spec == Init /\ [][Next]_vars

(***************************************************************************)
(* Properties.                                                             *)
(***************************************************************************)
Resting(side) == {k \in DOMAIN arena : arena[k].side = side}

Takers == [id : Ids, account : Accounts, side : Sides, price : Int, qty : Nat,
           remaining : Nat, order_type : {"Limit", "Market"},
           tif : {"Gtc", "Ioc", "Fok"}]

\* Types: in particular no quantity goes below zero (Qty wraps a u64).
BookTypeOK ==
  /\ arena \in [DOMAIN arena -> RestingOrder]
  /\ DOMAIN arena \subseteq Ids
  /\ id_to_key \subseteq Ids
  /\ levels \in [Sides -> [Idx -> Seq(Ids)]]
  /\ best \in [Sides -> Idx \cup {NoIdx}]

TypeOK ==
  /\ BookTypeOK
  /\ taker \in Takers \cup {NoTaker}
  /\ seq \in Nat

\* The three indexes of one order agree: the cancel index knows exactly the
\* orders of the arena, and a level holds exactly the orders of its side and
\* price.  apply() updates them in separate statements on five paths.
IndexesAgree ==
  /\ id_to_key = DOMAIN arena
  /\ \A k \in DOMAIN arena : price_to_idx(arena[k].price) # NoIdx
  /\ \A side \in Sides, i \in Idx :
       Range(levels[side][i]) = {k \in Resting(side) : arena[k].price = idx_to_price(i)}

\* Time priority: a level lists its orders in the order of their sequence
\* numbers, each once, whatever was cancelled from its middle.
LevelsFifo ==
  \A side \in Sides, i \in Idx :
    \A p, q \in 1 .. Len(levels[side][i]) :
      p < q => levels[side][i][p] < levels[side][i][q]

\* best_bid_idx / best_ask_idx name the best occupied level after every step,
\* so the "shouldn't happen" branches of match_against_book do not.
BestExact ==
  \A side \in Sides :
    IF best[side] = NoIdx
      THEN \A i \in Idx : levels[side][i] = <<>>
      ELSE /\ levels[side][best[side]] # <<>>
           /\ \A i \in Idx : levels[side][i] # <<>> => AsAggressive(side, best[side], i)

\* The book is never locked or crossed, in the middle of a command either.
NotCrossed ==
  \A b \in Resting("Buy"), k \in Resting("Sell") : arena[b].price < arena[k].price

\* Every resting order has something left to fill.
RestingPositive == \A k \in DOMAIN arena : arena[k].qty > 0

\* The order being matched is newer than every resting order, and a limit
\* order's price has a place in the ladder: what Rest relies on to keep the
\* level's order and its index in bounds.
TakerFresh ==
  /\ \A k \in DOMAIN arena : k <= seq
  /\ taker # NoTaker =>
       /\ taker.id = seq
       /\ \A k \in DOMAIN arena : k < taker.id
       /\ taker.remaining <= taker.qty
       /\ taker.order_type = "Limit" => price_to_idx(taker.price) # NoIdx

\* The consistency of the book by itself.
BookOK == /\ BookTypeOK /\ IndexesAgree /\ LevelsFifo
          /\ BestExact /\ NotCrossed /\ RestingPositive

\* The inductive invariant of apply(): the book is consistent, also with the
\* command being matched, before and after every iteration of every command.
IInv == TypeOK /\ BookOK /\ TakerFresh

\* A taker that left the loop partially filled has removed a maker, so the
\* arena has room for what remains: it cannot be rejected as ArenaFull.
PartialFillHasRoom ==
  /\ Cardinality(DOMAIN arena) <= Capacity
  /\ taker # NoTaker /\ 0 < taker.remaining /\ taker.remaining < taker.qty
       => Cardinality(DOMAIN arena) < Capacity

\* A command that reports Rejected reports no Trade: a client told "rejected"
\* holds no fill.
RejectMeansNoFill ==
  \A i, j \in DOMAIN events :
    events[i].type = "Rejected" => events[j].type # "Trade"

\* "FOK should never actually reach this branch with qty_remaining > 0"
\* (apply.rs): the read-only scan and the matching loop agree.
FokNeverUnfilled == Unfilled => taker.tif # "Fok"

\* What apply() reports is what it did: no rejection after a fill, be it for a
\* full arena or for a fill-or-kill order, on any path out of the loop.
OutcomesAgree == PartialFillHasRoom /\ RejectMeansNoFill /\ FokNeverUnfilled

\* The fill-or-kill scan, which trusts ladder and links, reports exactly whether
\* the other accounts' crossing orders of the arena cover the quantity.
FokScanExact ==
  taker = NoTaker =>
    \A o \in {o \in NewOrders : o.tif = "Fok"} :
      LET Fillable == {k \in Resting(Opposite(o.side)) :
                         /\ arena[k].account # o.account
                         /\ \/ o.order_type = "Market"
                            \/ AsAggressive(o.side, o.price, arena[k].price)}
      IN  CanFullyFill(o) <=> MapThenSumSet(LAMBDA k : arena[k].qty, Fillable) >= o.qty

Newest(es) == es[Len(es)]

\* Price-time priority, stated on the arena alone: a trade executes at its
\* maker's price against the order that no other resting order of that side
\* precedes in price, then in sequence.
TradesInPriority ==
  LET e == Newest(events')
  IN  events' # events /\ events' # <<>> /\ e.type = "Trade" =>
        /\ e.price = arena[e.maker].price
        /\ \A k \in Resting(arena[e.maker].side) \ {e.maker} :
             /\ AsAggressive(arena[k].side, e.price, arena[k].price)
             /\ arena[k].price = e.price => e.maker < k

PriceTimePriority == [][TradesInPriority]_vars

\* Every command returns: an iteration of the matching loop that does not end
\* the command leaves less to match, in the taker or in the book.
ToMatch == taker.remaining + Cardinality(DOMAIN arena)

LoopDescends ==
  [][taker # NoTaker /\ taker' # NoTaker => ToMatch' < ToMatch]_vars
=============================================================================
