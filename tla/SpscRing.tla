------------------------------ MODULE SpscRing ------------------------------
(***************************************************************************)
(* The single-producer single-consumer ring: crates/ring-buffer/spsc.rs.   *)
(*                                                                         *)
(* One thread calls try_push, one calls try_pop; every shared access is a  *)
(* step.  A cursor is a usize that wraps at Wrap (2^64 in the code).  The  *)
(* cached copies of a cursor equal the shared one between calls, so they   *)
(* are not separate state.  An atomic load need not return the newest      *)
(* value: it returns any value the cursor had since the thread's previous  *)
(* load of it.                                                             *)
(***************************************************************************)
EXTENDS Integers, Sequences

CONSTANTS
  Values,   \* items
  Cap,      \* CAP, a power of two
  Wrap      \* cursor values: 0 .. Wrap - 1

\* CAP is a power of two and divides the 2^64 values of a usize.
ASSUME SpscAssumption ==
  /\ Values # {} /\ Cap \in Nat \ {0} /\ Wrap \in Nat
  /\ Wrap % Cap = 0 /\ Wrap > Cap

VARIABLES
  head, tail,          \* shared cursors
  slots,               \* ring position -> set of at most one item
  p_pc, p_tail, item,  \* producer: position in try_push, loaded tail, argument
  c_pc, c_head,        \* consumer: position in try_pop, loaded head
  got                  \* the item the consumer read last

producer == <<head, p_pc, p_tail, item>>
consumer == <<tail, c_pc, c_head, got>>
vars == <<producer, consumer, slots>>

Cursors == 0 .. Wrap - 1
Uninit  == {}

mask(idx) == idx % Cap

wrapping_add(c, n) == (c + n) % Wrap

\* Faulty variant: plain subtraction.
wrapping_sub_signed(a, b) == a - b

wrapping_sub(a, b) == (a - b) % Wrap

\* The values a cursor had between an earlier load of it and now.
SinceLoad(seen, now) == {wrapping_add(seen, n) : n \in 0 .. (now - seen) % Wrap}

\* Stands for an argument or a result before the first call.
NoItem == CHOOSE v \in Values : TRUE

Init ==
  /\ head = 0 /\ tail = 0
  /\ slots = [i \in 0 .. Cap - 1 |-> Uninit]
  /\ p_pc = "idle" /\ p_tail = 0 /\ item = NoItem
  /\ c_pc = "idle" /\ c_head = 0 /\ got = NoItem

(***************************************************************************)
(* try_push.                                                               *)
(***************************************************************************)
PushLoadTail ==
  /\ p_pc = "idle"
  /\ p_tail' \in SinceLoad(p_tail, tail)
  /\ item' \in Values
  /\ p_pc' = "loaded"
  /\ UNCHANGED <<head, consumer, slots>>

\* Faulty variant: one slot too many.
FullLate == wrapping_sub(head, p_tail) = Cap + 1

Full == wrapping_sub(head, p_tail) = Cap

PushFull ==
  /\ p_pc = "loaded"
  /\ Full
  /\ p_pc' = "idle"
  /\ UNCHANGED <<head, p_tail, item, consumer, slots>>

PushWrite ==
  /\ p_pc = "loaded"
  /\ ~Full
  /\ slots' = [slots EXCEPT ![mask(head)] = {item}]
  /\ p_pc' = "written"
  /\ UNCHANGED <<head, p_tail, item, consumer>>

PushStoreHead ==
  /\ p_pc = "written"
  /\ head' = wrapping_add(head, 1)
  /\ p_pc' = "idle"
  /\ UNCHANGED <<p_tail, item, consumer, slots>>

(***************************************************************************)
(* try_pop.                                                                *)
(***************************************************************************)
PopLoadHead ==
  /\ c_pc = "idle"
  /\ c_head' \in SinceLoad(c_head, head)
  /\ c_pc' = "loaded"
  /\ UNCHANGED <<tail, got, producer, slots>>

Empty == c_head = tail

PopEmpty ==
  /\ c_pc = "loaded"
  /\ Empty
  /\ c_pc' = "idle"
  /\ UNCHANGED <<tail, c_head, got, producer, slots>>

\* assume_init_read moves the item out.  Of an uninitialized slot it returns
\* any value.
PopRead ==
  /\ c_pc = "loaded"
  /\ ~Empty
  /\ LET slot == slots[mask(tail)]
     IN  got' \in IF slot = Uninit THEN Values ELSE slot
  /\ slots' = [slots EXCEPT ![mask(tail)] = Uninit]
  /\ c_pc' = "read"
  /\ UNCHANGED <<tail, c_head, producer>>

PopStoreTail ==
  /\ c_pc = "read"
  /\ tail' = wrapping_add(tail, 1)
  /\ c_pc' = "idle"
  /\ UNCHANGED <<c_head, got, producer, slots>>

Next ==
  \/ PushLoadTail \/ PushFull \/ PushWrite \/ PushStoreHead
  \/ PopLoadHead \/ PopEmpty \/ PopRead \/ PopStoreTail

Spec == Init /\ [][Next]_vars

(***************************************************************************)
(* Properties.                                                             *)
(***************************************************************************)

\* Types: the ring never holds more than Cap items.
TypeOK ==
  /\ head \in Cursors /\ tail \in Cursors /\ p_tail \in Cursors /\ c_head \in Cursors
  /\ slots \in [0 .. Cap - 1 -> {{v} : v \in Values} \cup {Uninit}]
  /\ item \in Values /\ got \in Values
  /\ p_pc \in {"idle", "loaded", "written"} /\ c_pc \in {"idle", "loaded", "read"}
  /\ wrapping_sub(head, tail) <= Cap

\* No data race on a slot: whenever the producer may write a slot and the
\* consumer may read one, the slots differ.  The SAFETY comments of try_push
\* and try_pop claim it of the unsafe accesses.
NoSlotRace ==
  ~ /\ p_pc = "loaded" /\ ~Full
    /\ c_pc = "loaded" /\ ~Empty
    /\ mask(head) = mask(tail)

\* Each item is moved out exactly once: try_pop reads only a slot that holds
\* an item, try_push writes only one whose item was moved out.
SlotsOwned ==
  /\ c_pc = "loaded" /\ ~Empty => slots[mask(tail)] # Uninit
  /\ p_pc = "loaded" /\ ~Full => slots[mask(head)] = Uninit

\* The ring is a bounded FIFO.  An item leaves the abstract queue when it is
\* read, so the consumer's slot is not part of it once it is.
Pending == wrapping_sub(head, tail) - (IF c_pc = "read" THEN 1 ELSE 0)
Oldest  == IF c_pc = "read" THEN wrapping_add(tail, 1) ELSE tail

Queue   == [i \in 1 .. Pending |->
              CHOOSE v \in slots[mask(wrapping_add(Oldest, i - 1))] : TRUE]

Fifo == INSTANCE BoundedFifo WITH queue <- Queue

\* Every behaviour of the two threads is one of a bounded FIFO: nothing is
\* lost, duplicated, reordered or overwritten, across cursor wrap-around.
ImplementsFifo == Fifo!Spec
=============================================================================
