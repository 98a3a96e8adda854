----------------------------- MODULE PriceLevel -----------------------------
(***************************************************************************)
(* One price level: crates/order-book, level.rs, an intrusive doubly       *)
(* linked list threaded through the arena, with a running total.           *)
(*                                                                         *)
(* The arena is modelled with the orders of this level only.  A slotmap    *)
(* key is not reused; keys are 1, 2, ... in the order of insertion.  Qty   *)
(* is a u64 whose sums wrap at Width (2^64) in a release build.            *)
(***************************************************************************)
EXTENDS Integers, FiniteSets, FiniteSetsExt, Sequences

CONSTANTS
  Qtys,      \* quantities an order rests with
  Width,     \* Qty arithmetic is modulo Width
  MaxKeys    \* bound: orders inserted

VARIABLES
  arena,       \* key -> [qty, prev, next]
  head, tail,  \* ends of the list
  total_qty,   \* running total of the level
  next_key     \* the key the next insertion gets

vars == <<arena, head, tail, total_qty, next_key>>

None == 0
Keys == 1 .. MaxKeys

Init ==
  /\ arena = [k \in {} |-> 0]
  /\ head = None /\ tail = None
  /\ total_qty = 0
  /\ next_key = 1

Without(key, a) == [k \in DOMAIN a \ {key} |-> a[k]]

\* a with one link of order k redirected, if there is such an order.
SetNext(a, k, to) == IF k = None THEN a ELSE [a EXCEPT ![k].next = to]
SetPrev(a, k, to) == IF k = None THEN a ELSE [a EXCEPT ![k].prev = to]

\* Faulty variant: the order is linked at the head.
PushFront(q) ==
  /\ next_key \in Keys
  /\ LET order == [qty |-> q, prev |-> None, next |-> head]
     IN  arena' = [k \in DOMAIN arena \cup {next_key} |->
                     IF k = next_key THEN order ELSE SetPrev(arena, head, next_key)[k]]
  /\ head' = next_key
  /\ tail' = IF tail = None THEN next_key ELSE tail
  /\ total_qty' = (total_qty + q) % Width
  /\ next_key' = next_key + 1

\* arena.insert of a RestingOrder, then push_back.
PushBack(q) ==
  /\ next_key \in Keys
  /\ LET order == [qty |-> q, prev |-> tail, next |-> None]
     IN  arena' = [k \in DOMAIN arena \cup {next_key} |->
                     IF k = next_key THEN order ELSE SetNext(arena, tail, next_key)[k]]
  /\ head' = IF tail = None THEN next_key ELSE head
  /\ tail' = next_key
  /\ total_qty' = (total_qty + q) % Width
  /\ next_key' = next_key + 1

\* Faulty variant: the successor keeps its backward link.
RemoveHalf(key) ==
  /\ LET order == arena[key]
     IN  /\ arena' = Without(key, SetNext(arena, order.prev, order.next))
         /\ head' = IF order.prev = None THEN order.next ELSE head
         /\ tail' = IF order.next = None THEN order.prev ELSE tail
         /\ total_qty' = (total_qty - order.qty) % Width
  /\ UNCHANGED next_key

Remove(key) ==
  /\ LET order == arena[key]
     IN  /\ arena' = Without(key, SetPrev(SetNext(arena, order.prev, order.next),
                                          order.next, order.prev))
         /\ head' = IF order.prev = None THEN order.next ELSE head
         /\ tail' = IF order.next = None THEN order.prev ELSE tail
         /\ total_qty' = (total_qty - order.qty) % Width
  /\ UNCHANGED next_key

\* The caller never fills more than the head has (FillQty of OrderBook).
FillHead(q) ==
  /\ head # None
  /\ q <= arena[head].qty
  /\ total_qty' = (total_qty - q) % Width
  /\ LET order == arena[head]
     IN  IF order.qty = q
           THEN /\ arena' = Without(head, SetPrev(arena, order.next, None))
                /\ head' = order.next
                /\ tail' = IF order.next = None THEN None ELSE tail
           ELSE /\ arena' = [arena EXCEPT ![head].qty = @ - q]
                /\ UNCHANGED <<head, tail>>
  /\ UNCHANGED next_key

Next ==
  \/ \E q \in Qtys : PushBack(q) \/ FillHead(q)
  \/ \E key \in DOMAIN arena : Remove(key)

Spec == Init /\ [][Next]_vars

(***************************************************************************)
(* Properties.                                                             *)
(***************************************************************************)

\* The keys met by following `next' from the head, and `prev' from the tail.
\* A walk that falls off the list stays at None.
Forward  == LET at[n \in Keys] == IF n = 1 THEN head
                                  ELSE IF at[n - 1] \in DOMAIN arena THEN arena[at[n - 1]].next
                                  ELSE None
            IN  [n \in 1 .. Cardinality(DOMAIN arena) |-> at[n]]
Backward == LET at[n \in Keys] == IF n = 1 THEN tail
                                  ELSE IF at[n - 1] \in DOMAIN arena THEN arena[at[n - 1]].prev
                                  ELSE None
            IN  [n \in 1 .. Cardinality(DOMAIN arena) |-> at[n]]

\* The list threads every order of the level exactly once, in the order of
\* arrival, and the same way backwards: cancels from the middle and fills of
\* the head leave no dangling or crossed link, and an empty list has no ends.
WellLinked ==
  LET n == Cardinality(DOMAIN arena)
  IN  /\ {Forward[i] : i \in 1 .. n} = DOMAIN arena
      /\ \A i \in 1 .. n : Backward[i] = Forward[n + 1 - i]
      /\ \A i \in 1 .. n - 1 : Forward[i] < Forward[i + 1]
      /\ n = 0 => head = None /\ tail = None
      /\ n > 0 => arena[tail].next = None /\ arena[head].prev = None

\* The running total that bid_qty_at and ask_qty_at report equals the sum of
\* the quantities of the level, modulo the width of Qty: it never drifts.
TotalExact ==
  total_qty = MapThenSumSet(LAMBDA k : arena[k].qty, DOMAIN arena) % Width

Queue == INSTANCE LevelQueue
           WITH queue <- [i \in 1 .. Cardinality(DOMAIN arena) |->
                            [key |-> Forward[i], qty |-> arena[Forward[i]].qty]]

\* The linked list implements the FIFO that the order book takes a level for.
ImplementsQueue == Queue!Spec
=============================================================================
