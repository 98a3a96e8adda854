----------------------------- MODULE Escalation -----------------------------
(***************************************************************************)
(* What the second engine does with the commands it wins: each worker has  *)
(* books of its own, applies the command to them and records in the entry  *)
(* what it filled.                                                         *)
(*   crates/second-engine/src/engine.rs                                    *)
(* The race for an entry is in module DualEngine; here a worker takes the  *)
(* next entry of the channel as one step, since nothing else touches its   *)
(* books or a claimed entry.  Entries are numbered as they are processed:  *)
(* only the identity of a number matters here.                             *)
(***************************************************************************)
EXTENDS Integers, SequencesExt, PlainBook

CONSTANTS
  EscWorkers,    \* worker threads
  EscSymbols,    \* SecondEngineConfig::book_configs
  EscCommands,   \* commands that may be escalated
  MaxEntries     \* bound: entries escalated

VARIABLES
  books,        \* worker -> symbol -> its book
  entries,      \* escalated entries in order of seq: [cmd, filled_qty]
  sold,         \* history: quantity each order traded while resting
  withdrawn     \* history: quantity each order lost to a cancel

esc_vars == <<books, entries, sold, withdrawn>>

\* start: build_books for each worker.
EscInit ==
  /\ books = [w \in EscWorkers |-> [s \in EscSymbols |-> <<>>]]
  /\ entries = <<>>
  /\ sold = [e \in 1 .. MaxEntries |-> 0]
  /\ withdrawn = [e \in 1 .. MaxEntries |-> 0]

\* Faulty variant: the last trade counts, not all of them.
accumulate_fill_last(events) ==
  LET trades == SelectSeq(events, LAMBDA e : e.type = "Trade")
  IN  IF trades = <<>> THEN 0 ELSE Last(trades).qty

\* Every Trade of a NewOrder has that order as its taker.
accumulate_fill(events) ==
  FoldLeft(LAMBDA sum, e : IF e.type = "Trade" THEN sum + e.qty ELSE sum, 0, events)

\* Liquidate: a Cancel for each open order of the account.
CancelAll(sc, resting) ==
  FoldLeft(LAMBDA st, o :
             LET r == ApplyCancel([seq |-> sc.seq, cmd |-> [type |-> "Cancel",
                                   account |-> sc.cmd.account, order_id |-> o.id]], st.book)
             IN  [book |-> r.book, events |-> st.events \o r.events],
           [book |-> resting, events |-> <<>>],
           OrdersAt(resting, OwnedBy(resting, sc.cmd.account)))

\* apply_escalated on the book of one symbol: [book, events].
ApplyTo(sc, s, resting) ==
  CASE sc.cmd.type = "NewOrder" /\ sc.cmd.symbol = s  -> ApplyNewOrder(sc, resting)
    [] sc.cmd.type = "Liquidate" /\ sc.cmd.symbol = s -> CancelAll(sc, resting)
    [] sc.cmd.type = "Cancel"                         -> ApplyCancel(sc, resting)
    [] OTHER                                          -> [book |-> resting, events |-> <<>>]

QtyIn(resting, id) == FoldLeft(LAMBDA n, o : IF o.id = id THEN n + o.qty ELSE n, 0, resting)

\* worker_loop and process_single, for an entry the worker has claimed.  The
\* entry is appended here to the ones escalated before.
Process(w, cmd) ==
  /\ Len(entries) < MaxEntries
  /\ LET sc  == [seq |-> Len(entries) + 1, cmd |-> cmd]
         res == [s \in EscSymbols |-> ApplyTo(sc, s, books[w][s])]
         evs(type) == UNION {{e \in ToSet(res[s].events) : e.type = type} : s \in EscSymbols}
     IN  /\ books' = [books EXCEPT ![w] = [s \in EscSymbols |-> res[s].book]]
         /\ entries' = Append(entries,
              [cmd |-> cmd,
               filled_qty |-> IF cmd.type = "NewOrder" /\ cmd.symbol \in EscSymbols
                                THEN accumulate_fill(res[cmd.symbol].events) ELSE 0])
         /\ sold' = [o \in DOMAIN sold |-> sold[o]
              + MapThenSumSet(LAMBDA e : e.qty, {e \in evs("Trade") : e.maker_order = o})]
         /\ withdrawn' = [o \in DOMAIN withdrawn |-> withdrawn[o]
              + MapThenSumSet(LAMBDA s : QtyIn(books[w][s], o),
                  {s \in EscSymbols : \E e \in ToSet(res[s].events) :
                                        e.type = "Cancelled" /\ e.order_id = o})]

EscNext == \E w \in EscWorkers, cmd \in EscCommands : Process(w, cmd)

EscSpec == EscInit /\ [][EscNext]_esc_vars

(***************************************************************************)
(* Properties.                                                             *)
(***************************************************************************)
Left(id) ==
  MapThenSumSet(LAMBDA ws : QtyIn(books[ws[1]][ws[2]], id), EscWorkers \X EscSymbols)

\* Nothing an order asked for is lost or filled twice on its way through the
\* second engine: what its entry records as filled, what it traded while it
\* rested, what was cancelled and what still rests in some worker's book add
\* up to its quantity; an order for a symbol without a book does nothing.
QuantityAccounted ==
  \A id \in DOMAIN entries :
    LET e == entries[id]
    IN  IF e.cmd.type = "NewOrder" /\ e.cmd.symbol \in EscSymbols
          THEN e.filled_qty + sold[id] + withdrawn[id] + Left(id) = e.cmd.qty
          ELSE e.filled_qty = 0 /\ sold[id] = 0 /\ withdrawn[id] = 0 /\ Left(id) = 0
=============================================================================
