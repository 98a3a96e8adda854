----------------------------- MODULE BookMirror -----------------------------
(***************************************************************************)
(* A reader of the event stream that OrderBook::apply returns, which knows *)
(* nothing of the book but what the events say: which orders are open and  *)
(* with what quantity.                                                     *)
(***************************************************************************)
EXTENDS OrderBook, SequencesExt

VARIABLE open   \* id -> open quantity, by the events read so far

\* The meaning of an event for the set of open orders.
Observe(seen, e) ==
  LET Drop(id) == [k \in DOMAIN seen \ {id} |-> seen[k]]
  IN  CASE e.type = "Accepted"  -> [k \in DOMAIN seen \cup {e.id} |->
                                      IF k = e.id THEN e.qty ELSE seen[k]]
        [] e.type = "Cancelled" -> Drop(e.id)
        [] e.type = "Trade"     -> IF seen[e.maker] = e.qty THEN Drop(e.maker)
                                   ELSE [seen EXCEPT ![e.maker] = @ - e.qty]
        [] OTHER                -> seen

\* The events that a step adds: a command starts a list of its own.
News == IF taker = NoTaker THEN events' ELSE SubSeq(events', Len(events) + 1, Len(events'))

MirrorInit == Init /\ open = [k \in {} |-> 0]
MirrorNext == Next /\ open' = FoldLeft(Observe, open, News)
MirrorSpec == MirrorInit /\ [][MirrorNext]_<<vars, open>>

\* The event stream is complete: whoever replays the events apply() returns
\* knows every open order and its quantity, through partial fills, self-trade
\* cancels and cancelled remainders.
MirrorExact == open = [k \in DOMAIN arena |-> arena[k].qty]
=============================================================================
