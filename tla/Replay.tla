------------------------------- MODULE Replay -------------------------------
(***************************************************************************)
(* The deterministic harness and the replay of its log.                    *)
(*   crates/sim/src/harness.rs, replay.rs, chaos.rs                        *)
(* A harness is one thread, so a tick is one step and the harness a record.*)
(* A tick hands each engine at most one command and the engine takes it in *)
(* the same tick, and the event queue is emptied in the tick: neither      *)
(* queue holds anything between ticks.  Clock and term are left out (no    *)
(* component reads them) and so is set_mark_price (the log has no marks).  *)
(***************************************************************************)
EXTENDS Risk, PlainBook, SequencesExt

CONSTANTS
  SimSymbols,      \* sequence of symbols, one engine each
  SimShards,       \* sequence of the sets of accounts the shards own
  SimDeposit, SimFraction,
  SimCommands,     \* commands a scenario may push
  MaxCommands      \* bound: commands pushed

VARIABLES
  harness,   \* the SimHarness a scenario drives
  pushed     \* commands pushed so far

sim_vars == <<harness, pushed>>

SimAccounts == UNION ToSet(SimShards)
Deposited   == [a \in SimAccounts |-> SimDeposit]

\* SimHarness::new; seed_deposit for every account.
NewHarness ==
  [next_seq  |-> 0, inbound |-> <<>>, wal |-> <<>>,
   books     |-> [s \in ToSet(SimSymbols) |-> <<>>],
   positions |-> [a \in SimAccounts |-> [s \in ToSet(SimSymbols) |-> FlatPosition]],
   account   |-> [a \in SimAccounts |->
                   [balance |-> SimDeposit, used_margin |-> 0, frozen |-> FALSE]],
   trades    |-> 0]

\* Queues a command is routed to.
Routed(cmd) ==
  IF cmd.type \in {"NewOrder", "Liquidate"} THEN <<cmd.symbol>> ELSE SimSymbols

\* SimEngine::step: the book ignores Liquidate and FreezeAccount.
EngineStep(sc, resting) ==
  CASE sc.cmd.type = "NewOrder" -> ApplyNewOrder(sc, resting)
    [] sc.cmd.type = "Cancel"   -> ApplyCancel(sc, resting)
    [] OTHER                    -> [book |-> resting, events |-> <<>>]

\* Step 2 of a tick: the engines in order, [books, events].
RunEngines(sc, books) ==
  FoldLeft(LAMBDA st, s :
             LET r == EngineStep(sc, st.books[s])
             IN  [books |-> [st.books EXCEPT ![s] = r.book], events |-> st.events \o r.events],
           [books |-> books, events |-> <<>>], Routed(sc.cmd))

\* Step 3: each event to each shard in order, [positions, account, commands].
RunShards(h, events) ==
  LET each(st, ev) == FoldLeft(LAMBDA t, owned :
                        ProcessEvent(t, ev, owned, Deposited, SimFraction), st, SimShards)
  IN  FoldLeft(each, [positions |-> h.positions, account |-> h.account, commands |-> <<>>],
               events)

\* One tick of SimHarness::run.  Every Liquidate is pushed to the front.
tick(h) ==
  IF h.inbound = <<>> THEN h
  ELSE LET sc  == [seq |-> h.next_seq + 1, cmd |-> Head(h.inbound)]
           eng == RunEngines(sc, h.books)
           rsk == RunShards(h, eng.events)
       IN  [next_seq  |-> sc.seq,
            inbound   |-> Reverse(rsk.commands) \o Tail(h.inbound),
            wal       |-> Append(h.wal, sc),
            books     |-> eng.books,
            positions |-> rsk.positions,
            account   |-> rsk.account,
            trades    |-> h.trades
                          + Len(SelectSeq(eng.events, LAMBDA e : e.type = "Trade"))]

\* What verify_account_states and verify_trade_counts compare, and positions.
Outcome(h) == [account |-> h.account, trades |-> h.trades, positions |-> h.positions]

(***************************************************************************)
(* Replayer::replay.                                                       *)
(***************************************************************************)
\* Faulty variant: commands are pushed like liquidations, at the front.
InjectedReversed(log) == Reverse([i \in DOMAIN log |-> log[i].cmd])

Injected(log) == [i \in DOMAIN log |-> log[i].cmd]

replay(log) ==
  FoldLeft(LAMBDA h, t : tick(h),
           [NewHarness EXCEPT !.inbound = Injected(log)],
           [t \in 1 .. 2 * Len(log) + 10 |-> t])

(***************************************************************************)
(* A scenario pushes commands and lets the harness run.                    *)
(***************************************************************************)
SimInit == harness = NewHarness /\ pushed = 0

push_command(cmd) ==
  /\ pushed < MaxCommands
  /\ pushed' = pushed + 1
  /\ harness' = [harness EXCEPT !.inbound = Append(@, cmd)]

run ==
  /\ harness.inbound # <<>>
  /\ harness' = tick(harness)
  /\ UNCHANGED pushed

SimNext == run \/ \E cmd \in SimCommands : push_command(cmd)

SimSpec == SimInit /\ [][SimNext]_sim_vars

(***************************************************************************)
(* Properties.                                                             *)
(***************************************************************************)

\* A logged Liquidate is injected again on replay, next to the one the replay
\* raises itself, so the ids of later orders shift and a Cancel misses.
CancelsBeforeLiquidates(log) ==
  \A i, j \in DOMAIN log : log[i].cmd.type = "Liquidate" /\ i < j => log[j].cmd.type # "Cancel"

\* Wherever the run stopped, or its log was cut, replaying the log raises the
\* liquidations of the run again and ends with the same account states,
\* positions and trades - as long as no Cancel comes after a Liquidate.
ReplayExact ==
  CancelsBeforeLiquidates(harness.wal) => Outcome(replay(harness.wal)) = Outcome(harness)

\* replay.rs: "The replayed harness must reach byte-identical state to the
\* original."
ReplayIdentical == Outcome(replay(harness.wal)) = Outcome(harness)
=============================================================================
