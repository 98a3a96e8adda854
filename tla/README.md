# Verification of the match-and-risk engine

TLA+ models of the trading engine in `src/`, checked with TLC on small
instances, and theorems about them proved with TLAPS. `PROJECT.json` holds the
machine-readable index: components, runs, source map, mutants, hazards,
findings and theorems.

## The system and its parts

A client's frames enter the `gateway`, which feeds one lane per session into the
`sequencer`. The sequencer numbers each command, hands it to the write-ahead log
and routes it to the `matching-engine` of its symbol. The engine checks the
account's published risk state (`seqlock`), matches in its `order-book`, fans the
events out to the `risk-engine` shards, logs them and publishes them to clients. A
shard that sees a margin breach freezes the account and sends `Liquidate` back
into the sequencer. Every arrow is a bounded lock-free ring (`ring-buffer`). A
standby process tails the log and takes over when it gets the leader lease. A
second path (`dual-log`, `sorter`, `second-engine`) processes orders the primary
engine does not claim in time. `sim` runs the whole in one thread and replays its
log.

| Part | Source (`src/crates/`) | Modules | State |
|---|---|---|---|
| Order book, matching | `order-book/src/{apply,book,order}.rs` | `OrderBook`, `BookMirror`; `PlainBook` for compositions | modelled, proved |
| Price level | `order-book/src/level.rs` | `PriceLevel` implements `LevelQueue` | modelled |
| SPSC ring | `ring-buffer/src/spsc.rs` | `SpscRing` implements `BoundedFifo` | modelled, proved |
| SPMC ring | `ring-buffer/src/spmc.rs` | `SpmcRing` implements `BroadcastFifo` | modelled, proved |
| Seqlock | `seqlock/src` | `Seqlock` | modelled for one writer, proved |
| Leader election | `sequencer/src/failover.rs` | `Failover` | modelled, proved |
| Sequencer | `sequencer/src/{sequencer,snapshot_marker}.rs` | `Pipeline`, `Takeover`, `Failover` | modelled, without the halt flag; routing order proved fair |
| Standby | `sequencer/src/standby.rs` | `Takeover` | modelled |
| Log, recovery, snapshots, persistent memory | `wal/src` | `Wal`, `Takeover` | modelled |
| Matching engine | `matching-engine/src/{engine,risk_check,mapper}.rs` | `Pipeline`, `Risk` | partly |
| Risk engine | `risk-engine/src` | `Position`, `PositionLedger`, `Risk`, `RiskLedger`, `Pipeline` | modelled; ledger and freeze proved |
| Gateway | `gateway/src` | `Gateway` | partly |
| Dual log, pending ring | `dual-log/src` | `DualEngine` | partly; safety proved |
| Sorter and its election | `sorter/src/{sorter,leader}.rs` | `DualEngine`, `SorterLeader` | modelled, proved |
| Second engine | `second-engine/src/engine.rs` | `DualEngine`, `Escalation` | modelled |
| Latency histograms | `matching-engine/src/metrics.rs`, `metrics/src` | `Telemetry` | partly |
| Simulator, replay | `sim/src` | `Replay` | partly |

What is left out of the parts marked "partly", and the parts without a module, is
under "Not modelled".

## The modules

### OrderBook, BookMirror

`apply()` runs on one thread and is not interrupted, so commands do not
interleave; what makes it hard is the agreement of five pieces of state
(`arena`, `id_to_key`, the two ladders, the two best indexes) through long
sequences of commands. A rejected or cancelling command is one action; a
matching order is `BeginMatch`, then one action per loop iteration
(`CancelOwnMaker`, `FillMaker`, `FillTaker`), then one action for the way it
ends (`ReturnFilled`, `CancelRemainder`, `RejectArenaFull`, `Rest`). The
invariants are therefore checked inside commands too. The two mirrored halves of
the code are functions of the side; an order id stands for its slotmap key (keys
are generational and not reused); a level is the sequence of its orders
(justified by `PriceLevel`); client order ids, timestamps and the symbol are left
out. The downward and upward scans are stated as the relation they compute
(`ScanBest`). The fill-or-kill scan is the code's nested loop, level by level and
order by order, as two recursive functions (`ScanLeft`, `DeductLevel`).
`LoopDescends` is the termination argument of the matching loop: each
iteration takes quantity from the taker or an order from the book.

`BookMirror` composes the book with a reader that knows it only through the
returned events; `MirrorExact` says that the events are complete.

### PriceLevel and LevelQueue

The intrusive doubly linked list, link by link, with `total_qty` modulo the
width of `Qty`. `LevelQueue` is the FIFO that `OrderBook` assumes; the mapping
is the walk along `next` (`Forward`).

### SpscRing and BoundedFifo, SpmcRing and BroadcastFifo

Each shared access of `try_push` and `try_pop` is a step. An acquire load may
return any value the cursor has had since the thread's previous load of it. Cursors
of the SPSC ring wrap at `Wrap`, and reading a slot moves the item out: an
uninitialized slot yields any value. In the SPMC ring `min_tail` loads one cursor
after the other while the consumers move on. `Rings` puts the two together.

### Seqlock

`update` and `read` word by word: the writer makes the sequence odd, stores the
fields and makes it even; a reader retries when it saw an odd or a changed
sequence. Two fields stand for the six. The setters (`set_frozen` and others) read
the state and update all of it.

### Position, PositionLedger, Risk, RiskLedger

`Position` holds the fixed-point arithmetic of one position (`apply_fill` and its
helpers), with truncating division; `Risk` adds margin, the tier-0 check, the
engine's `check_new_order` and `process_event`, with saturation where the code
saturates. `realised_pnl`, net positions and `projected_position` are taken not to
reach the ends of an i64, where the code saturates them, and quantities to survive the
cast to one. `PositionLedger` applies any sequence of fills to a position next to
a cash ledger that keeps exact sums; `RiskLedger` adds what tier-0 accepts in each
of its states.

### Failover

Several processes, each with an election thread and a dispatching thread that
share the role and the term; the lease file is a lock holder and a term.
Processes crash anywhere, which releases the lock, and restart with fresh
memory; a controller may be dropped while its process runs on. The lease file is
taken to be readable: `read_term` treats one that is not as term 0, and terms would
begin anew. The look at the shutdown flag and the lock attempt after it are one step.
The supervisor and the OS lock are external.

### Wal, Takeover

`Wal` says what the bytes of a log mean to the code that scans it: a position is
unwritten, whole, torn, or holds a sequence number and nothing else (which passes
the CRC check, since the CRC of no bytes is 0). `Takeover` has one leader after
another over one log. The sequencer numbers a command and pushes it to the WAL
queue, or drops it if the queue is full; the WAL thread appends part by part; pages
reach the disk in any order; snapshots are written, renamed and may lose the
rename; a crash comes anywhere; the standby polls, is promoted, makes its last
pass and starts to number. The last pass may fail: `run_until_promoted` discards its
error, and the leader starts from the number of an earlier poll. Three media differ in when an append is durable: a file
with `sync_on_write`, one without, and persistent memory. The WAL thread itself and
the caller of the snapshot writer are not in the repository: external.

### Pipeline

Sequencer, engines and shards as threads around bounded queues (FIFOs, justified by
the ring modules) and account states (atomic, justified by `Seqlock`). The
sequencer polls lanes round-robin and spins on full queues; the engine drops events
for the shards after its retries, halts itself when its log fails, and publishes
only what it logged; the shard applies fills, freezes and spins to send
`Liquidate`. An order for a symbol without an engine makes the sequencer index
`me_inbound` out of range: it panics and takes no further step (`Panicked`). Books are
those of `PlainBook`: one price, orders rest until filled or cancelled.

### Gateway

One connection: the task that reads frames and feeds the lane, the forwarder of
execution reports, one forwarder per subscribed instrument, and the writer. The
socket delivers frames in pieces of any size; broadcast channels overwrite their
oldest message when a receiver lags, and which events the forwarder of execution
reports skipped is recorded (`skipped`); the writer's channel is bounded. Closing by
the peer, by an error or by a failed write ends the tasks as in `server.rs`. Tokio's
channels are external, modelled from how they are used.

### DualEngine, Escalation, SorterLeader

The writer, the primary engine, sorters and workers meet in the status byte of
an entry (compare-and-swap), in the pending ring and in the channel; each access
to these is a step. `PendingRing` inserts into or removes from its map first and
updates its counter in a second step. The primary's claim, processing and
recording are not in the repository and are modelled as external, from the
transitions `order_status.rs` names. Which entries a scan finds late is left open
for young entries, since the timeout depends on the load and the sorter's clock
does not have the origin of the one that stamps entries; entries past the longest
timeout are always late. A snapshot of the map is taken in one step: entries are
classified one by one, so a scan over a snapshot that changed meanwhile acts on
each entry as some sequence of scans would. A sorter's place in its snapshot is the
entry in hand and the set still to do; the map is ordered, so the next entry is the
oldest of that set.

`Escalation` is what a worker then does with the command on its own books, and the
fills it records in the entry. `SorterLeader` is the election between sorters, the
shared token and each instance's belief in separate steps.

### Replay

The harness as a record and a tick as one step; in every reachable state the log is
replayed into a fresh harness and compared. `ReplayExact` is claimed for logs in
which no `Cancel` follows a `Liquidate`; `ReplayIdentical` drops that condition and
fails.

### Telemetry

Shards record a sample field by field while the aggregator loads the fields of each
histogram, merges them, or resets them. Relaxed accesses are taken in program order.
`PercentileBound` relates a reported percentile to a recorded sample, and without
overlap to the exact percentile. Samples beyond the last bucket's edge (2^32 ns) are
clamped into the last bucket and reported as that edge, below their value.

## Runs

`MCParts`, `MCSequencer` and `MCPipeline` hold several specifications that share no
variables: `part` is chosen initially and only that one moves, so the state space is
the sum of theirs. In `MCDualEngine` it chooses between two instances of one
specification.

| Run | Module / cfg | Bounds | What it shows |
|---|---|---|---|
| `book` | `MCBookMirror` | 2 accounts, 2 ticks, prices in and beyond the ladder, quantities 0..2, capacity 2, 5 commands | the inductive invariant `IInv`; outcomes agree with effects; price-time priority; the fill-or-kill scan is exact; the loop descends; events are complete |
| `parts` | `MCParts` | see below | rings, seqlock, list, risk arithmetic, replay, second engine, histograms, sorter election |
| `replay` | `MCParts_replay` | 5 commands | **violation**: replay raises liquidations twice |
| `failover` | `MCSequencer` | 3 nodes, 3 terms; log of 3 records, queue of 1, snapshot every 2, 4 commands, 3 media | one incumbent, terms distinct and increasing, the lease is taken; acknowledged records are kept and replayed in order, gaps are reported, replayed numbers are not reused |
| `failover_stepdown` | `_stepdown` | the same | **violation**: two leaders |
| `takeover_numbering` | `_numbering` | synced file | **violation**: numbers assigned twice |
| `dual` | `MCDualEngine` | 2 workers, with 2 sorters and 1 order or 1 sorter and 2 orders | no double processing, nothing lost, every order is handled |
| `dual_removed` | `_removed` | 1 order | **violation**: removed before processed |
| `pipeline` | `MCPipeline` | 2 engines, 2 shards, 4 scripts of 2 to 4 commands, all queues of 1 slot; 7 client streams, channels of 1 to 2, 3 published events | nothing published unlogged, a liquidated account stays flat, positions balance, lanes are fair, no gridlock; commands in order, reports and market data without holes, reports arrive |
| `pipeline_cancels` | `_cancels` | the same | **violation**: cancels are not published |
| `gateway_fills` | `_fills` | the same | **violation**: fills are reported from the aggressor's side |
| `gateway_frames` | `_frames` | the same | **violation**: one buffered frame per read |

`parts` in detail: rings of 2 slots, with 2 values and cursors modulo 8 (SPSC), or 4
pushes to 2 consumers (SPMC); 4 updates under 1 reader (readers do not affect one
another or the writer); 5 insertions with quantities 1..3 at width 8; 4 fills at 3
prices with 3 quantities, saturation at 20; 4 commands to two symbols and two
shards; 4 entries over two workers; 2 samples in 2 histograms of 2 buckets, one of the
three latencies beyond the last edge; 3 sorters.

Why the bounds reach the interesting cases. Two resting orders and quantities up
to 2 give exact, partial and multi-maker fills, and five commands fill the arena
and then match, cancel and rest again. A ring of two slots with cursors modulo
eight is full, empty and wraps several times. Two sorters, two workers and the
primary race pairwise for an order; orders meet only in the ring and the channel, for
which one sorter with two of them is enough, and the safety properties are proved for
any number of each. Three nodes and three terms let the lease
pass twice, once back to a node that held it. Three log records hold a first
leader's record, a torn one and a second leader's, with a snapshot in between.
With queues of one slot every spinning push in the pipeline spins and every drop
happens; the scripts are a sweep that breaches margin with more orders behind it, a
breach that a later fill heals, cancels, and an order for an unlisted symbol behind a
breach. The client streams are a trading
client, a subscriber, and clients that break the protocol in each way the session
tells apart. The histogram bounds let a sample be recorded across a
collection and across a reset.

`CHECK_DEADLOCK FALSE` is set where the model stops at its bound on commands,
orders or samples. Symmetry over accounts is used in a safety run only.

Invariants that belong together are checked as one property: `IInv` (the book's
inductive invariant), `OutcomesAgree` (`PartialFillHasRoom`, `RejectMeansNoFill`,
`FokNeverUnfilled`), `RingsSafe` (slots of both rings), `ListExact` (`WellLinked`,
`TotalExact`), `ElectionInv` (`TermsDistinct`, `LeaderHasTerm`, `LockBacksLeader`),
`AckedSurvives` (`AckedKept`, `AckedReplayed`), `AcceptedIsSafe`
(`AcceptedIsAffordable`, `AcceptedIsNotLiquidated`).

Every property of a passing run has a mutant: a variant of a mapped definition
("Faulty variant" in the modules) with a plausible bug, under which TLC finds that
property violated.

## Fairness

- `Failover!FairSpec`: the election thread of a live process polls every 50 ms.
  `ElectionCompletes` is claimed once processes stop crashing and restarting.
- `DualEngine!FairSpec`: writer, sorters and workers keep running and time passes.
  The primary need never look for an order, but finishes one it has picked.
- `Pipeline!FairSpec`: some thread that can move does; the threads are pinned to
  cores of their own and only spin. `LoopDrains` is claimed as long as no engine halts
  itself, since the sequencer spins on the queue of one that did, and the sequencer has
  not panicked on a symbol without an engine.
- `Gateway!FairSpec`: the tokio runtime polls the forwarder and the writer whenever
  they are ready. Nothing is assumed of the client, or of the socket taking writes.

## Findings

- `failover_stepdown`: dropping the `FailoverController` releases the lease but never
  stores `Standby`, so the sequencer that still holds the handle goes on dispatching.
- `takeover_numbering`: when a snapshot covers the whole log, `recover` reports 0 as the
  last sequence number, and the promoted standby numbers from there.
- `dual_removed`: `FinallyHandled` is set by the claim, before the order is processed;
  the sorter removes and counts such an order as handled.
- `pipeline_cancels`: the book reports removals as `EngineEvent::Cancelled`, and
  `map_engine_event` maps only `OrderCancelled`; clients and event log are not told.
- `gateway_fills`: `encode_exec_report` writes the aggressor's order id and remaining
  quantity for both parties of a fill, where its comment says that it picks the side of
  the account the report is for (`session.rs:385`).
- `gateway_frames`: `Ok(None)` means both "no complete frame" and "frame handled", so
  one frame is handled per read and a complete one may wait for the client's next bytes.
- `replay`: logged liquidations are injected next to the ones the replay raises itself,
  order ids shift and a cancel misses its order.

Some properties state an exception that the code needs:

- `AckedReplayed` (a conjunct of `AckedSurvives`) and `ReplayedNotRenumbered` exclude a
  log whose first record was cut down to its sequence number (`FirstRecordCut`):
  `scan_to_end` accepts it, recovery stops there.
- `AckedReplayed` speaks of synced files only: recovery reads the records of persistent
  memory with another header.
- `ReplayedNotRenumbered` speaks of leaders whose last pass could read the log
  (`caught_up`), as does `PromotionResumesNumbering`, which fails even for these. `let _ = self.poll_once()`
  (`standby.rs:60`) discards the error of one that could not, and the comment above it,
  "One last catch-up pass to close any gap", is then not met: replayed numbers are given
  out again. The other properties of the log hold all the same.
- `PercentileBound`: "bounded error of at most ~2x" (`metrics.rs:152`) is not true of
  samples of 2^32 ns and more, which are reported as the last bucket's edge.
- `LoopDrains` excludes an order for a symbol without an engine. The gateway checks of a
  symbol only that it fits a u16, the sequencer asserts that it has an engine
  ("unknown symbol index", `sequencer.rs:219`, in debug builds) and indexes with it
  (`:224`). The panic ends the sequencer, and nothing drains. `RejectReason` has an
  `UnknownInstrument` that nothing raises.
- `ReportsComplete` and `ReportsArrive` except the events a lagging forwarder skips, and
  speak of which events are reported; what a fill report says is `gateway_fills`.

Observations made while modelling that no property covers, because nothing in the
repository says what should hold or because no caller reaches them today:

- A matching engine that halted itself leaves its queue full, and the sequencer spins
  on it for every symbol without looking at the halt flag (`sequencer.rs:226`).
- A broadcast cancel makes every engine that does not own the order publish
  `OrderNotFound` next to the real outcome (`sequencer.rs:238`).
- `highest_term_seen` of the engine is only raised in the branch that drops a command,
  so the fence never closes (`matching-engine/src/engine.rs:126`).
- Nothing raises `position` and `open_order_count` in the published account state, so
  the engine's limits on them compare with zero (`shard.rs:135`).
- The gateway does not call the tier-0 check (a TODO at `server.rs:211`). The check casts
  the quantity to an i64, so one of 2^63 or more counts as negative (`config.rs:64`).
- After a half-failed dual write the refused order is in one log (`dual_log.rs:120`);
  the sorter ignores a failed send (`sorter.rs:150`).
- Books of the second engine are per worker, so a cancel another worker takes does not
  find the order (`second-engine/src/engine.rs:258`).
- `set_frozen` reads and then writes back all fields, which is not safe next to another
  writer (`account_risk_state.rs:136`).
- `min_tail` takes a plain minimum of wrapping cursors (`spmc.rs:106`).
- The counter of the pending ring is a `usize` that a remover may decrement before the
  pusher has incremented it: it wraps until the pusher gets there
  (`pending_ring.rs:37`). `LenSettles` speaks of the integer behind it.
- An escalated command for a symbol the second engine has no book for counts as
  processed, with a fill of 0 (`second-engine/src/engine.rs:175`).

## Proofs

Each theorem is about the same definitions that TLC checks, for every value of the
constants that the named assumptions of the module allow. TLC evaluates the
assumptions on its instances.

| Module | Theorems | Assumptions |
|---|---|---|
| `OrderBookProofs` | `BookConsistent` (`IInv`), `TypeCorrect`, `IndexesAlwaysAgree`, `NeverCrossed`, `BestAlwaysExact`, `AlwaysPriceTimePriority` | prices integers, quantities naturals, any ladder length and capacity |
| `FillScanProofs`, `OrderBookOutcomeProofs` | lemmas about the scan; `LoopAlwaysDescends`, `OutcomesAlwaysAgree` | the same |
| `RingsProofs` | `SpscRingSafe`, `SpscImplementsFifo`, `SpmcRingSafe`, `SpmcImplementsBroadcast`, `RingsAlwaysSafe` | the capacity divides the number of cursor values; at least one consumer |
| `DualEngineProofs` | `AlwaysAppliedOnce`, `NeverForgotten`, `AlwaysAppliedIsLogged` | finite sets of sorters and workers |
| `SorterCountProofs` | `LenAlwaysSettles`, `TokenAlwaysHasOneHolder` | the same |
| `PipelineProofs` | `AlwaysRoundRobinFair`, `LiquidatedAlwaysFlat`, `AlwaysPublishedWasLogged`, `Tier0Sound` | at least one lane; books hold orders of known accounts; clients do not send `Liquidate`; for `Tier0Sound` those it states |
| `PartsProofs` | `EquityAlwaysMatchesCash`; `TermsAlwaysDistinct`, `TermsAlwaysAdvance`, `AlwaysOneIncumbent`, `ElectionAlwaysSound`; `ReadsAlwaysSnapshots` | positive price scale and fill quantities; `NoNode` is not a node |

### The arguments

*Book.* `IInv` holds for every ladder length (0 included), capacity, finite or
infinite set of prices and quantities and bound on commands. No conjunct is
inductive alone. `NotCrossed` after `Rest` needs that the loop broke because nothing
crosses, which is a statement about the best index and hence needs `BestExact`;
`BestExact` speaks of levels and needs `IndexesAgree` to speak of orders; removing
one order from a level keeps `IndexesAgree` only if the level lists it once, which
is `LevelsFifo`; `LevelsFifo` after `Rest` needs that the taker is newer than every
resting order, which is `TakerFresh`; a maker to match exists because of
`BestExact`, and has something left because of `RestingPositive`. `UnlinkKeepsBook`
is the one way in which orders leave (cancels, self-trade cancels, fills),
`UnfilledDoesNotCross` and `RestKeepsIInv` the one way in which they enter.
Price-time priority follows: the maker is the head of the best level, and
`BestExact`, `LevelsFifo` and `IndexesAgree` put no order of its side before it.

*Outcomes.* That a fill-or-kill order which passed the scan is filled by the loop
needs the invariant `FokCovered`: after every iteration the scan, run again over what
is left of the book, still covers what is left of the order. `FillScanProofs` has the
lemmas: what the scan leaves when the head of the first occupied level is taken away,
exactly or in part, and that levels before it do not count. The scan is a recursive
function over levels, and each lemma compares the values of two such functions step
by step.

*Rings.* `SpscInv` says that each thread's copy of the other's cursor lies between
the true cursors (as wrapping differences), and that a slot is initialized just when
it lies between the cursors, corrected for an item moved out or not yet published.
`SlotIndex` carries the modular arithmetic: places less than one capacity apart are
different slots, also across the wrap. The refinements map the slots between tail and
head to the abstract queue; only `PushStoreHead` and `PopRead`, or the SPMC ring's
publication and `FanClone`, are abstract steps. `FanInv` is the same with
one tail per consumer and the fact that what `min_tail` saw is behind every tail.

*Second path.* `DualInv` ties the status of an entry to who may hold it: nothing is
applied before a terminal status, an engine between claim and record has the status
to show for it, two workers never hold one claim, and an escalated order is in the
channel or in somebody's hands. Only the compare-and-swap enters a terminal status,
so `AppliedOnce` follows. `LenSettles` is inductive on top of it: each step changes
the counter, or one of the two counted sets, together with the map. For the sorters'
election the invariant counts holders without cardinalities (`OneHolder`).

*Loop.* `TurnsInv` bounds how often a lane has been passed over by its distance from
the cursor. `LoopInv` follows a `Liquidate` through its life: wherever one is under
way (shard, lane, sequencer, engine) its account is frozen in the published state,
`process_event` never lifts a freeze, and an engine that has handled one has no order
of the account and accepts none. It also says that an event to go out was logged.

*Election.* An acquired term is at most the one on disk; a process past the lock owns
it and one that leads is past it or was told to stop (`LockBacksLeader`); the term is in
the handle before the role (`TermInPlace`). `AlwaysOneIncumbent` speaks of processes
that have not dropped their controller; the run `failover_stepdown` shows that the
restriction is necessary.

*Seqlock.* `ReaderInv`: as long as the sequence word is the one a reader loaded, no
update has begun since, and what it copied is what the fields hold.

*Ledger.* `FillValue`: in each case of `apply_fill` (opening, adding, reducing, closing, flipping) the value at cost
(`Value`) moves by what the fill costs and by the remainder of its division, if any, which
is smaller than the divisor. `LedgerInv` sums these: value and cash differ by at most
what divisions have lost.

*Tier-0.* `Tier0Sound` is the first half of `AcceptedIsSafe`, for any integer balance
and margin in use. A gross value that saturates is above the order limit; what is
within the limit has a margin that does not saturate; and the difference saturates only
where it is no less than any margin, or negative. Its hypotheses are needed: the limit
below i64::MAX / scale, its margin within an i64, and a quantity below 2^63.

### Only model-checked

- Liveness (`ElectionCompletes`, `EveryOrderHandled`, `LoopDrains`, `ReportsArrive`):
  outside what the prover does.
- What is defined by recursion or a fold over data of any length, which would need an
  induction that the prover's library cannot be instantiated for: `ListExact` and
  `ImplementsQueue` (the walk along links), `MirrorExact` (a fold over events),
  `FokScanExact` (the scan against a sum over the book), `PositionsBalance`,
  `AcceptedIsSafe` (sums over accounts and positions; see `Tier0Sound`), `QuantityAccounted`,
  `PercentileBound`, `ReplayExact`.
- `CommandsInOrder`, `ReportsComplete`, `FeedHasNoHole` of `Gateway`, and
  `AckedSurvives`, `ReplayInOrder`, `GapsReported`, `ReplayedNotRenumbered` of
  `Takeover`: they compare filtered and concatenated sequences, or the result of
  scanning a whole log, for which the same holds.

The modules with theorems, and those they use, take nothing from `SequencesExt`, whose
many definitions slow the provers down; `Without`, `Newest` and `OrdersAt` are the few
helpers written for that reason.

## Not modelled

- `dpdk-gateway`: bindings to a packet driver behind an optional feature; with it,
  `rx.rs` does not compile as written.
- `logger`, the Prometheus rendering, plain counters: output that no component reads.
- `affinity`, `tls`: set-up calls; a failed handshake is an action of `Gateway`.
- `sorter/src/load_monitor.rs`: only chooses a timeout that `DualEngine` leaves open.
- `sequencer/src/halt.rs`: the sequencer panics at the top of its loop; for the rest of
  the system that is a crash.
- `DualLog::open`, `flush` and `gc_terminal`, `MatchingEngine::shutdown`, the engine's
  `FreezeAccount` branch (the sequencer routes it to no engine), the session's order-id
  table and `SubscriptionRegistry`: no caller outside the tests.
- Byte layouts of frames and records, CRC collisions, checksums of log entries,
  formatting of values: the models keep what scans and decoders can tell apart.
- `sim`: mark prices, terms and the scripted scenarios.
- The wrap of 64-bit cursors and sequence numbers other than in `SpscRing`.
- Two concurrent writers of a seqlock: no such caller is reachable today.
