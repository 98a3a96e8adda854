---------------------------- MODULE MCParts ---------------------------------
(***************************************************************************)
(* The self-contained parts of the system, each on its own.  A behaviour   *)
(* picks one of them in its initial state and runs only that one, so the   *)
(* state space is the sum of theirs and not the product.                   *)
(***************************************************************************)
EXTENDS Rings, Seqlock, RiskLedger, SorterLeader

CONSTANTS
  Names,                                          \* the parts to run
  Qtys, Width, MaxKeys,                           \* PriceLevel
  SimSymbols, SimShards, SimDeposit, SimFraction, SimCommands, MaxCommands,   \* Replay
  EscWorkers, EscSymbols, EscCommands, MaxEntries,                            \* Escalation
  Histograms, Latencies, NumBuckets, MaxSamples                               \* Telemetry

VARIABLES
  part,
  arena, l_head, l_tail, total_qty, next_key,
  harness, pushed,
  books, entries, sold, withdrawn,
  hist, recording, reading, collected, resetting, samples, since, quiet, clean

Level  == INSTANCE PriceLevel WITH head <- l_head, tail <- l_tail
Sim    == INSTANCE Replay
Second == INSTANCE Escalation
Stats  == INSTANCE Telemetry

\* An order rests with a positive quantity.
ASSUME LevelAssumption == Qtys \subseteq 1 .. Width - 1

\* A notional that saturates is above the order limit, and the margin of an
\* order within it does not saturate.
ASSUME LimitAssumption ==
  /\ Limits.max_order_notional < IntMax \div PriceScale
  /\ Limits.max_order_notional * Limits.initial_margin_fraction <= IntMax

AllNames == {"spsc", "spmc", "seqlock", "level", "ledger", "sim", "second", "stats", "leader"}

PartsInit ==
  /\ part \in Names
  /\ Init /\ FanInit /\ SeqlockInit /\ Level!Init /\ LedgerInit
  /\ Sim!SimInit /\ Second!EscInit /\ Stats!TelemetryInit /\ LeaderInit

level_vars  == <<arena, l_head, l_tail, total_qty, next_key>>
sim_vars    == <<harness, pushed>>
second_vars  == <<books, entries, sold, withdrawn>>
stats_vars  == <<hist, recording, reading, collected, resetting, samples, since, quiet, clean>>
parts_vars  == <<part, vars, fan_vars, seqlock_vars, level_vars, ledger_vars, sim_vars,
                 second_vars, stats_vars, leader_vars>>

RunSpsc == /\ part = "spsc" /\ Next
           /\ UNCHANGED <<part, fan_vars, seqlock_vars, level_vars, ledger_vars, sim_vars,
                          second_vars, stats_vars, leader_vars>>
RunSpmc == /\ part = "spmc" /\ FanNext
           /\ UNCHANGED <<part, vars, seqlock_vars, level_vars, ledger_vars, sim_vars,
                          second_vars, stats_vars, leader_vars>>
RunSeqlock == /\ part = "seqlock" /\ SeqlockNext
              /\ UNCHANGED <<part, vars, fan_vars, level_vars, ledger_vars, sim_vars,
                             second_vars, stats_vars, leader_vars>>
RunLevel == /\ part = "level" /\ Level!Next
            /\ UNCHANGED <<part, vars, fan_vars, seqlock_vars, ledger_vars, sim_vars,
                           second_vars, stats_vars, leader_vars>>
RunLedger == /\ part = "ledger" /\ LedgerNext
             /\ UNCHANGED <<part, vars, fan_vars, seqlock_vars, level_vars, sim_vars,
                            second_vars, stats_vars, leader_vars>>
RunSim == /\ part = "sim" /\ Sim!SimNext
          /\ UNCHANGED <<part, vars, fan_vars, seqlock_vars, level_vars, ledger_vars,
                         second_vars, stats_vars, leader_vars>>
RunSecond == /\ part = "second" /\ Second!EscNext
             /\ UNCHANGED <<part, vars, fan_vars, seqlock_vars, level_vars, ledger_vars,
                            sim_vars, stats_vars, leader_vars>>
RunStats == /\ part = "stats" /\ Stats!TelemetryNext
            /\ UNCHANGED <<part, vars, fan_vars, seqlock_vars, level_vars, ledger_vars,
                           sim_vars, second_vars, leader_vars>>
RunLeader == /\ part = "leader" /\ LeaderNext
             /\ UNCHANGED <<part, vars, fan_vars, seqlock_vars, level_vars, ledger_vars,
                            sim_vars, second_vars, stats_vars>>

PartsNext == \/ RunSpsc \/ RunSpmc \/ RunSeqlock \/ RunLevel \/ RunLedger
             \/ RunSim \/ RunSecond \/ RunStats \/ RunLeader

PartsSpec == PartsInit /\ [][PartsNext]_parts_vars

\* Price level (level.rs): the list threads every order once, both ways, and
\* the running total is the sum of the quantities.
ListExact == part = "level" => Level!WellLinked /\ Level!TotalExact

\* Price level: the linked list implements the FIFO the book takes it for.
ImplementsQueue == Level!ImplementsQueue

\* Tier-0 (tier0.rs) and the shard: an accepted order is affordable in exact
\* arithmetic, and its fill does not by itself make the shard liquidate.
AcceptedIsSafe == part = "ledger" => AcceptedStaysSafe

\* Harness and replay (harness.rs, replay.rs): replaying the log reproduces it.
ReplayExact == part = "sim" => Sim!ReplayExact

\* Second engine (engine.rs): the quantity of an order is accounted for.
QuantityAccounted == part = "second" => Second!QuantityAccounted

\* Metrics (metrics.rs, aggregator.rs): percentiles of merged histograms.
PercentileBound == part = "stats" => Stats!PercentileBound

\* replay.rs: "The replayed harness must reach byte-identical state".
ReplayIdentical == Sim!ReplayIdentical

MCQtys   == 1 .. 3
MCPrices == {1, 5, 7}
MCLimits == [max_order_notional |-> 9,
             initial_margin_fraction |-> 2, maintenance_margin_fraction |-> 1]

New(a, s, side, qty) ==
  [type |-> "NewOrder", account |-> a, symbol |-> s, side |-> side, price |-> 1, qty |-> qty]
Cxl(a, id) == [type |-> "Cancel", account |-> a, order_id |-> id]
Liq(a, s)  == [type |-> "Liquidate", account |-> a, symbol |-> s]
Freeze(a)  == [type |-> "FreezeAccount", account |-> a]

MCSymbols     == <<"s", "t">>
MCShards      == <<{"a"}, {"b"}>>
MCSimCommands == {New("a", "s", "Buy", 2), New("b", "s", "Sell", 2), New("b", "s", "Sell", 1),
                  New("a", "t", "Sell", 1), Cxl("a", 1), Cxl("b", 5), Freeze("a")}
MCEscSymbols  == {"s", "t"}
MCEscCommands == {New("a", "s", "Buy", 3), New("b", "s", "Sell", 1), New("b", "t", "Buy", 1),
                  New("a", "u", "Buy", 1),
                  Cxl("a", 1), Cxl("b", 2), Liq("b", "s"), Freeze("a")}
MCHistograms  == <<"x", "y">>
=============================================================================
