----------------------------- MODULE LevelQueue -----------------------------
(***************************************************************************)
(* What a price level promises the order book: a FIFO of orders with their *)
(* remaining quantities.  It is the view of a level that OrderBook uses.   *)
(***************************************************************************)
EXTENDS Naturals, SequencesExt

CONSTANTS Keys, Qtys

VARIABLE queue   \* orders of the level, oldest first

Init == queue = <<>>

PushBack == \E k \in Keys, q \in Qtys :
              /\ \A i \in DOMAIN queue : queue[i].key # k
              /\ queue' = Append(queue, [key |-> k, qty |-> q])

RemoveOrder == \E i \in DOMAIN queue : queue' = RemoveAt(queue, i)

\* A fill takes from the oldest order, which leaves when nothing is left.
FillHead ==
  /\ queue # <<>>
  /\ \E q \in 1 .. queue[1].qty :
       queue' = IF q = queue[1].qty THEN Tail(queue)
                                    ELSE [queue EXCEPT ![1].qty = @ - q]

Spec == Init /\ [][PushBack \/ RemoveOrder \/ FillHead]_queue
=============================================================================
