------------------------------ MODULE Pipeline ------------------------------
(***************************************************************************)
(* The loop of threads an order goes through: the Sequencer numbers it and *)
(* routes it to the matching engine of its symbol; the engine checks,      *)
(* matches, and tells the risk shards, the event log and the clients; a    *)
(* shard that sees a margin breach freezes the account and sends Liquidate *)
(* back into the Sequencer.  All queues are bounded, and three of the four *)
(* pushes around the loop spin until there is room.                        *)
(*   crates/sequencer/src/sequencer.rs                                     *)
(*   crates/matching-engine/src/engine.rs, mapper.rs                       *)
(*   crates/risk-engine/src/shard.rs                                       *)
(*                                                                         *)
(* Queues are FIFOs (modules SpscRing and SpmcRing), account states are    *)
(* atomic (module Seqlock), the book is that of module PlainBook.  The     *)
(* Sequencer leads throughout and is not halted (module Failover); its     *)
(* push to the WAL thread is in module Takeover.                           *)
(***************************************************************************)
EXTENDS Risk, PlainBook, FiniteSets

CONSTANTS
  Symbols,        \* one matching engine each
  Accounts,       \* accounts of the AccountRiskTable
  Shards,
  Owner,          \* Accounts -> Shards: RiskShard::owned
  Listens,        \* Shards -> Symbols: the engine whose fan-out ring it reads
  Deposits,       \* Accounts -> Int: seed_deposit
  Fraction,       \* RiskLimits::maintenance_margin_fraction
  Limits,         \* Tier0Limits
  Lanes,          \* sequence of gw_inbound: "clients" or a shard
  InboundCap, FanCap, CommandCap, OutboundCap,
  Interval,       \* SnapshotMarkerSchedule::interval_seq
  Books, FirstSeq,     \* resting orders to start with, and Sequencer::initial_seq
  Scripts         \* what the clients send: a set of command sequences

Orders == [id : Nat, account : Accounts, side : {"Buy", "Sell"}, price : Int, qty : Nat]

\* There is a lane, and the clients' lane carries what the gateway makes of
\* frames, never a Liquidate (session.rs).
ASSUME LoopAssumption ==
  /\ Lanes \in Seq(Range(Lanes)) /\ Lanes # <<>>
  /\ \A script \in Scripts : /\ script \in Seq(Range(script))
                             /\ \A cmd \in Range(script) : cmd.type # "Liquidate"
  /\ Books \in [Symbols -> Seq(Orders)]

VARIABLES
  lanes,          \* gw_inbound: the queue of each lane
  gw_cursor, seq,
  sending,        \* dispatch under way: [sc, to, marker]
  snapshot_out,   \* markers for the downstream subscriber
  inbound,        \* queue of each engine
  book,           \* resting orders of each engine, in order of arrival
  pending,        \* events of the command an engine handles: [ev, stage, logged]
  reference,      \* reference_price: at most one
  running,        \* engine has not halted itself
  outbound,       \* events to the clients, as whether each is in the event log
  fan,            \* risk fan-out, as seen by each shard
  positions,      \* of each account and symbol
  account,        \* AccountRiskState of each account
  emitting,       \* Liquidate commands a shard has still to push
  liquidated,     \* history: Liquidate commands handled, as <<symbol, account>>
  overtaken       \* history: dispatches from other lanes while this one waited

seq_vars    == <<lanes, gw_cursor, seq, sending, snapshot_out, overtaken>>
engine_vars == <<inbound, book, pending, reference, running, outbound, liquidated>>
shard_vars  == <<fan, positions, account, emitting>>
vars        == <<seq_vars, engine_vars, shard_vars>>

Idle == [sc |-> <<>>, to |-> <<>>, marker |-> <<>>]

Init ==
  /\ \E script \in Scripts :
       lanes = [q \in Range(Lanes) |-> IF q = "clients" THEN script ELSE <<>>]
  /\ gw_cursor = 0 /\ seq = FirstSeq /\ sending = Idle /\ snapshot_out = <<>>
  /\ inbound = [s \in Symbols |-> <<>>] /\ book = Books
  /\ pending = [s \in Symbols |-> <<>>]
  /\ reference = [s \in Symbols |-> {}]
  /\ running = [s \in Symbols |-> TRUE]
  /\ outbound = [s \in Symbols |-> <<>>]
  /\ fan = [h \in Shards |-> <<>>]
  /\ positions = [a \in Accounts |-> [s \in Symbols |-> FlatPosition]]
  /\ account = [a \in Accounts |->
                 [balance |-> Deposits[a], used_margin |-> 0, frozen |-> FALSE,
                  halted |-> FALSE, position |-> 0, open_order_count |-> 0]]
  /\ emitting = [h \in Shards |-> <<>>]
  /\ liquidated = {} /\ overtaken = [q \in Range(Lanes) |-> 0]

(***************************************************************************)
(* Sequencer::run.                                                         *)
(***************************************************************************)
\* Faulty variant: the scan always starts at the first lane.
CursorAfterFirst(i) == 0

\* gw_cursor after a command from lane i (counted from 0).
CursorAfter(i) == (i + 1) % Len(Lanes)

\* The engines, in the order of Sequencer::me_inbound.
Engines == CHOOSE f \in [1 .. Cardinality(Symbols) -> Symbols] : Range(f) = Symbols

\* cmd_symbol, and the broadcast of a cancel; FreezeAccount goes nowhere.  The
\* symbol is the client's, and may be one without an engine.
Targets(cmd) ==
  CASE cmd.type \in {"NewOrder", "Liquidate"} -> <<cmd.symbol>>
    [] cmd.type = "Cancel"                    -> Engines
    [] OTHER                                  -> <<>>

should_fire(n) == n % Interval = 0

\* poll_inbound and the start of dispatch.
SeqDispatch ==
  /\ sending = Idle
  /\ LET lane(k) == (gw_cursor + k) % Len(Lanes)
         ready   == {k \in 0 .. Len(Lanes) - 1 : lanes[Lanes[lane(k) + 1]] # <<>>}
     IN  /\ ready # {}
         /\ LET i == lane(Min(ready))
                q == Lanes[i + 1]
            IN  /\ gw_cursor' = CursorAfter(i)
                /\ seq' = seq + 1
                /\ sending' = [sc |-> <<[seq |-> seq + 1, cmd |-> Head(lanes[q])]>>,
                               to |-> Targets(Head(lanes[q])),
                               marker |-> IF should_fire(seq + 1) THEN <<seq + 1>> ELSE <<>>]
                /\ lanes' = [lanes EXCEPT ![q] = Tail(@)]
                /\ overtaken' = [p \in DOMAIN lanes |->
                                   IF p = q \/ lanes[p] = <<>> THEN 0 ELSE overtaken[p] + 1]
  /\ UNCHANGED <<snapshot_out, engine_vars, shard_vars>>

\* me_inbound has no such index: the thread panics and does nothing any more.
Panicked == sending.to # <<>> /\ Head(sending.to) \notin Symbols

\* The spin on a matching engine's queue, one engine after the other.
SeqRoute ==
  /\ sending.to # <<>> /\ ~Panicked
  /\ LET s == Head(sending.to)
     IN  /\ Len(inbound[s]) < InboundCap
         /\ inbound' = [inbound EXCEPT ![s] = @ \o sending.sc]
  /\ sending' = [sending EXCEPT !.to = Tail(@)]
  /\ UNCHANGED <<lanes, gw_cursor, seq, snapshot_out, overtaken, book, pending, reference,
                 running, outbound, liquidated, shard_vars>>

\* inject_snapshot_marker, and the end of dispatch.
SeqFinish ==
  /\ sending # Idle /\ sending.to = <<>>
  /\ sending.marker = <<>> \/ Len(snapshot_out) < FanCap
  /\ snapshot_out' = snapshot_out \o sending.marker
  /\ sending' = Idle
  /\ UNCHANGED <<lanes, gw_cursor, seq, overtaken, engine_vars, shard_vars>>

\* External: the subscriber of the snapshot markers.
SubscriberPop ==
  /\ snapshot_out # <<>>
  /\ snapshot_out' = Tail(snapshot_out)
  /\ UNCHANGED <<lanes, gw_cursor, seq, sending, overtaken, engine_vars, shard_vars>>

(***************************************************************************)
(* MatchingEngine.                                                         *)
(***************************************************************************)
\* Events with their way to go: "risk" then "log" then "out".
Queued(events, stage) ==
  [i \in DOMAIN events |-> [ev |-> events[i], stage |-> stage, logged |-> FALSE]]

\* The variants of EngineEvent that become an Event; OrderCancelled would, but
\* the book reports a cancel as Cancelled.
map_engine_event(ev) ==
  CASE ev.type = "Trade"    -> {"Filled"}
    [] ev.type = "Accepted" -> {"Accepted"}
    [] ev.type = "Rejected" -> {"Rejected"}
    [] OTHER                -> {}

RiskResult(s, cmd) ==
  IF cmd.account \in Accounts
    THEN check_new_order(cmd, Limits, account[cmd.account], reference[s])
    ELSE "UnknownAccount"

\* The effect of handle_command on the book, and its events.  FreezeAccount is
\* not routed here, and highest_term_seen is never raised, so its fence is open.
Outcome(s, sc) ==
  LET cmd  == sc.cmd
      new  == ApplyNewOrder(sc, book[s])
      cxl  == ApplyCancel(sc, book[s])
      mine == OwnedBy(book[s], cmd.account)
      open == OrdersAt(book[s], mine)
  IN  CASE cmd.type = "NewOrder" ->
             IF RiskResult(s, cmd) = "Ok"
               THEN [book |-> new.book, items |-> Queued(new.events, "risk")]
               ELSE [book |-> book[s],
                     items |-> Queued(<<Rejected(sc, RiskResult(s, cmd))>>, "log")]
        [] cmd.type = "Cancel" -> [book |-> cxl.book, items |-> Queued(cxl.events, "risk")]
        [] cmd.type = "Liquidate" ->
             [book  |-> OrdersAt(book[s], DOMAIN book[s] \ mine),
              items |-> Queued([i \in DOMAIN open |-> Cancelled(sc, open[i].id)], "risk")]

LastTrade(items, before) ==
  LET trades == SelectSeq(items, LAMBDA t : t.ev.type = "Trade")
  IN  IF trades = <<>> THEN before ELSE {trades[Len(trades)].ev.price}

\* run pops a command; handle_command up to the first publication.  The book
\* is private, so all of the command's changes to it happen here.
EngineHandle(s) ==
  /\ running[s] /\ pending[s] = <<>> /\ inbound[s] # <<>>
  /\ LET sc  == Head(inbound[s])
         out == Outcome(s, sc)
     IN  /\ book' = [book EXCEPT ![s] = out.book]
         /\ pending' = [pending EXCEPT ![s] = out.items]
         /\ reference' = [reference EXCEPT ![s] = LastTrade(out.items, @)]
         /\ liquidated' = IF sc.cmd.type = "Liquidate"
                            THEN liquidated \cup {<<s, sc.cmd.account>>} ELSE liquidated
  /\ inbound' = [inbound EXCEPT ![s] = Tail(@)]
  /\ UNCHANGED <<running, outbound, seq_vars, shard_vars>>

Listeners(s) == {h \in Shards : Listens[h] = s}

\* What is left to do for the first pending event once it reached its stage.
Advance(s, stage) ==
  pending' = [pending EXCEPT ![s] =
                IF map_engine_event(Head(@).ev) = {} THEN Tail(@)
                ELSE <<[Head(@) EXCEPT !.stage = stage]>> \o Tail(@)]

\* The ring takes an event only if every consumer has room.
FanHasRoom(s) == \A h \in Listeners(s) : Len(fan[h]) < FanCap

\* Faulty variant: each consumer misses what it has no room for.
FanPushEach(s) ==
  fan' = [h \in Shards |-> IF h \in Listeners(s) /\ Len(fan[h]) < FanCap
                             THEN Append(fan[h], Head(pending[s]).ev) ELSE fan[h]]

\* try_push of the event, or after MAX_RETRIES on a full ring its loss.
FanPush(s) ==
  fan' = IF FanHasRoom(s)
           THEN [h \in Shards |-> IF h \in Listeners(s)
                                    THEN Append(fan[h], Head(pending[s]).ev) ELSE fan[h]]
           ELSE fan

\* Faulty variant: the push to the shards spins like the other three.
PublishToRiskSpinning(s) ==
  /\ pending[s] # <<>> /\ Head(pending[s]).stage = "risk" /\ FanHasRoom(s)
  /\ FanPush(s) /\ Advance(s, "log")
  /\ UNCHANGED <<inbound, book, reference, running, outbound, liquidated, seq_vars,
                 positions, account, emitting>>

PublishToRisk(s) ==
  /\ pending[s] # <<>> /\ Head(pending[s]).stage = "risk"
  /\ FanPush(s) /\ Advance(s, "log")
  /\ UNCHANGED <<inbound, book, reference, running, outbound, liquidated, seq_vars,
                 positions, account, emitting>>

\* Faulty variant: after a failed append the event is published all the same.
AfterFailedAppendPublished(s) ==
  <<[Head(pending[s]) EXCEPT !.stage = "out"]>> \o Tail(pending[s])

\* A failed append ends the event's way, not the command's.
AfterFailedAppend(s) == Tail(pending[s])

\* publish_and_log: the append.
AppendEvent(s) ==
  /\ pending[s] # <<>> /\ Head(pending[s]).stage = "log"
  /\ \/ /\ pending' = [pending EXCEPT ![s] =
              <<[Head(@) EXCEPT !.stage = "out", !.logged = TRUE]>> \o Tail(@)]
        /\ UNCHANGED running
     \/ /\ pending' = [pending EXCEPT ![s] = AfterFailedAppend(s)]
        /\ running' = [running EXCEPT ![s] = FALSE]
  /\ UNCHANGED <<inbound, book, reference, outbound, liquidated, seq_vars, shard_vars>>

\* publish_and_log: the push, or after MAX_PUBLISH_RETRIES the loss.
PublishOut(s) ==
  /\ pending[s] # <<>> /\ Head(pending[s]).stage = "out"
  /\ outbound' = [outbound EXCEPT ![s] = IF Len(@) < OutboundCap
                                           THEN Append(@, Head(pending[s]).logged) ELSE @]
  /\ pending' = [pending EXCEPT ![s] = Tail(@)]
  /\ UNCHANGED <<inbound, book, reference, running, liquidated, seq_vars, shard_vars>>

\* External: the bridge into the gateway's exec-report channel.
BridgePop(s) ==
  /\ outbound[s] # <<>>
  /\ outbound' = [outbound EXCEPT ![s] = Tail(@)]
  /\ UNCHANGED <<inbound, book, pending, reference, running, liquidated, seq_vars, shard_vars>>

(***************************************************************************)
(* RiskShard.                                                              *)
(***************************************************************************)
\* process_event for the accounts of shard h.
process_event(h, ev) ==
  ProcessEvent([positions |-> positions, account |-> account, commands |-> <<>>],
               ev, {a \in Accounts : Owner[a] = h}, Deposits, Fraction)

\* run_risk_shard: pop and process an event.
ShardProcess(h) ==
  /\ emitting[h] = <<>> /\ fan[h] # <<>>
  /\ LET r == process_event(h, Head(fan[h]))
     IN  positions' = r.positions /\ account' = r.account
         /\ emitting' = [emitting EXCEPT ![h] = r.commands]
  /\ fan' = [fan EXCEPT ![h] = Tail(@)]
  /\ UNCHANGED <<seq_vars, engine_vars>>

\* run_risk_shard: the spin on commands_out, a lane of the Sequencer.
ShardEmit(h) ==
  /\ emitting[h] # <<>> /\ Len(lanes[h]) < CommandCap
  /\ lanes' = [lanes EXCEPT ![h] = Append(@, Head(emitting[h]))]
  /\ emitting' = [emitting EXCEPT ![h] = Tail(@)]
  /\ UNCHANGED <<gw_cursor, seq, sending, snapshot_out, overtaken, engine_vars,
                 fan, positions, account>>

SeqStep       == SeqDispatch \/ SeqRoute \/ SeqFinish
EngineStep(s) == EngineHandle(s) \/ PublishToRisk(s) \/ AppendEvent(s) \/ PublishOut(s)
ShardStep(h)  == ShardProcess(h) \/ ShardEmit(h)

Threads == \/ SeqStep \/ SubscriberPop
           \/ \E s \in Symbols : EngineStep(s)
           \/ \E h \in Shards : ShardStep(h)

Next == Threads \/ \E s \in Symbols : BridgePop(s)

\* Threads are pinned to cores and never block in the kernel: as long as one
\* of them has something to do, some step is taken.  (The clients may stop
\* reading.)
Fairness == WF_vars(Threads)

Spec     == Init /\ [][Next]_vars
FairSpec == Spec /\ Fairness

(***************************************************************************)
(* Properties.                                                             *)
(***************************************************************************)

\* "WAL write happens before publishing": whatever fails and is dropped, no
\* event is on its way to a client that is not in the event log.
PublishedWasLogged ==
  \A s \in Symbols : \A i \in DOMAIN outbound[s] : outbound[s][i]

\* Once an engine has handled Liquidate for an account, the account never
\* again has a resting order there: the shard published the freeze before it
\* sent Liquidate, and neither later fills nor orders already under way undo
\* it.
LiquidatedStaysFlat ==
  \A s \in Symbols, a \in Accounts : <<s, a>> \in liquidated =>
    \A i \in DOMAIN book[s] : book[s][i].account # a

\* Positions of all accounts in a symbol sum to zero whenever the shards have
\* consumed the same events, although each shard follows only its accounts
\* and the engine drops events when the ring is full.
PositionsBalance ==
  \A s \in Symbols :
    (\A h, k \in Listeners(s) : Len(fan[h]) = Len(fan[k])) =>
      MapThenSumSet(LAMBDA a : positions[a][s].net_qty, Accounts) = 0

\* A lane with a command in it is passed over at most once by each other
\* lane: a flood of client orders cannot hold up a Liquidate.
RoundRobinFair == \A q \in Range(Lanes) : overtaken[q] < Len(Lanes)

Drained ==
  /\ \A q \in Range(Lanes) : lanes[q] = <<>>
  /\ sending = Idle
  /\ \A s \in Symbols : inbound[s] = <<>> /\ pending[s] = <<>>
  /\ \A h \in Shards : fan[h] = <<>> /\ emitting[h] = <<>>

\* The loop of spinning pushes does not lock up: as long as no engine halts
\* itself and no order names a symbol without an engine, which ends the
\* Sequencer, every command is dispatched, handled and seen by the shards.
NoGridlock == ([](~Panicked /\ \A s \in Symbols : running[s])) => <>[]Drained

\* events.rs, Event::Canceled: "An order was removed from the book." - an
\* order that leaves a book is named by an event on its way to the clients.
RemovalsPublished ==
  [][\A s \in Symbols : \A i \in DOMAIN book[s] :
       LET id == book[s][i].id
       IN  (\A j \in DOMAIN book'[s] : book'[s][j].id # id) =>
             \E t \in Range(pending'[s]) :
               /\ map_engine_event(t.ev) # {}
               /\ \/ t.ev.type = "Trade" /\ t.ev.maker_order = id
                  \/ t.ev.type = "Cancelled" /\ t.ev.order_id = id]_vars
=============================================================================
