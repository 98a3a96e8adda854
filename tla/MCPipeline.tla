----------------------------- MODULE MCPipeline -----------------------------
(***************************************************************************)
(* Two engines, two accounts in two shards that follow the first engine,   *)
(* and four client scripts: a sweep of the book that breaches margin with  *)
(* more orders behind it, a breach that a later fill heals, cancels, and   *)
(* an order for a symbol that no engine has behind one that breaches.      *)
(* And one connection of the gateway, the loop's edge: a client that       *)
(* trades and follows an instrument, clients that break the protocol in    *)
(* each way, and events about its account and others.  A behaviour runs    *)
(* one of the two, so the state space is the sum of theirs.                *)
(***************************************************************************)
EXTENDS Pipeline

CONSTANTS s1, s2, h1, h2, Parts,
          Streams, Account, Instruments, WireSymbols, ExecEvents,     \* Gateway
          LaneCap, WriteCap, ExecCap, MdCap, MaxPublished

VARIABLES
  part,
  stream, pc, read_buf, taken, subscriptions, forwarded, lane, enqueued, exec_log, exec, first,
  skipped, md_log, channels, md, main_tx, chan, writer, written

Gate == INSTANCE Gateway WITH Symbols <- WireSymbols

gateway_vars == <<stream, pc, read_buf, taken, subscriptions, forwarded, lane, enqueued, exec_log,
                  exec, first, skipped, md_log, channels, md, main_tx, chan, writer, written>>
all_vars == <<part, vars, gateway_vars>>

InLoop(A)    == part = "loop" /\ A /\ UNCHANGED <<part, gateway_vars>>
InGateway(A) == part = "gateway" /\ A /\ UNCHANGED <<part, vars>>

\* The part that does not run has one initial state.
AllInit == /\ part \in Parts /\ Init /\ Gate!Init
           /\ part # "loop" => Len(lanes["clients"]) = 3
           /\ part # "gateway" => Len(stream) = 1

AllSpec == AllInit /\ [][InLoop(Next) \/ InGateway(Gate!Next)]_all_vars

\* Pipeline!Fairness and Gateway!Fairness.
AllFairSpec ==
  /\ AllSpec
  /\ WF_all_vars(InLoop(Threads))
  /\ WF_all_vars(InGateway(Gate!ExecRecv)) /\ WF_all_vars(InGateway(Gate!ExecSend))
  /\ WF_all_vars(InGateway(Gate!Write \/ Gate!WriterEnds))

Resting(id, a, side, qty) ==
  [id |-> id, account |-> a, side |-> side, price |-> 1, qty |-> qty]

New(a, s, side, qty) ==
  [type |-> "NewOrder", account |-> a, symbol |-> s, side |-> side, price |-> 1, qty |-> qty]

Cxl(a, id) == [type |-> "Cancel", account |-> a, order_id |-> id]
Freeze(a)  == [type |-> "FreezeAccount", account |-> a]

MCSymbols  == {s1, s2}
MCAccounts == {"a", "b"}
MCShards   == {h1, h2}
MCOwner    == [a \in MCAccounts |-> IF a = "a" THEN h1 ELSE h2]
MCListens  == [h \in MCShards |-> s1]
MCDeposits == [a \in MCAccounts |-> IF a = "a" THEN 1 ELSE 9]
MCLanes    == <<"clients", h1, h2>>
MCLimits   == [max_order_qty |-> 9, max_order_notional |-> 9, price_band_bps |-> 1,
               max_open_orders |-> 9, max_position_abs |-> 9]
MCBooks    == [s \in MCSymbols |->
                 IF s = s1 THEN <<Resting(1, "b", "Sell", 2), Resting(2, "b", "Sell", 1),
                                  Resting(3, "a", "Sell", 1)>>
                 ELSE <<Resting(4, "a", "Buy", 1)>>]

MCScripts ==
  { << New("a", s1, "Buy", 4), New("a", s1, "Buy", 1), New("b", s1, "Sell", 1) >>,
    << New("a", s1, "Buy", 2), New("b", s1, "Buy", 1), New("a", s1, "Buy", 1), Freeze("a") >>,
    << Cxl("b", 1), Cxl("b", 4), New("c", s2, "Sell", 1), Freeze("a") >>,
    << New("a", s1, "Buy", 4), New("b", "unlisted", "Sell", 1) >> }

Fr(type, arg, valid) == [type |-> type, arg |-> arg, valid |-> valid]

Login == Fr("auth", "a", TRUE)

MCStreams ==
  { << Login, Fr("new", "i", TRUE), Fr("cancel", 1, TRUE), Fr("new", "i", TRUE) >>,
    << Login, Fr("sub", "i", TRUE), Fr("unsub", "i", TRUE) >>,
    << Login, Fr("new", "wide", TRUE), Fr("new", "i", TRUE) >>,
    << Login, Fr("sub", "i", FALSE), Fr("new", "i", TRUE) >>,
    << Login, Fr("other", "i", TRUE) >>,
    << Login, [type |-> "length"] >>,
    << Fr("auth", "a", FALSE) >> }

MCExecEvents ==
  { [type |-> "Filled", aggressor |-> "b", resting |-> "a"],
    [type |-> "Accepted", account |-> "b"] }

\* Gateway (session.rs): the client's commands reach the lane in order.
CommandsInOrder == part = "gateway" => Gate!CommandsInOrder

\* Gateway (server.rs): no execution report of the account is missing.
ReportsComplete == part = "gateway" => Gate!ReportsComplete

\* Gateway (market_data.rs): no hole in the updates of an instrument.
FeedHasNoHole == part = "gateway" => Gate!FeedHasNoHole

\* Gateway (server.rs): execution reports reach the client.
ReportsArrive == part = "gateway" => Gate!ReportsArrive

\* session.rs, of a fill: "Encode from the perspective of *this* account".
FillsFromOwnSide == Gate!FillsFromOwnSide

\* server.rs: "Process as many complete frames as are already buffered".
FramesDrained == Gate!FramesDrained

\* The loop of threads does not lock up (sequencer.rs, engine.rs, shard.rs).
LoopDrains == part = "loop" => NoGridlock
=============================================================================
